---- MODULE Spec2Model ----
(***************************************************************************)
(* A model of the shell-assistant daemon: the circuit breaker and latency  *)
(* tracker (ConnectionHealth), the TTL response cache (ResponseCache), the *)
(* LLM client facade (LLMClient.complete / complete_with_retry) and the    *)
(* request dispatcher and connection loop of the daemon (AishDaemon).      *)
(*                                                                         *)
(* Time is time.monotonic() in whole seconds.  Strings are sequences of    *)
(* one-character strings, so "" is << >>.                                  *)
(***************************************************************************)
EXTENDS Integers, Sequences, FiniteSets, TLC

VARIABLES
    now,        \* time.monotonic(), seconds
    health,     \* LLMClient.health : ConnectionHealth
    cache,      \* LLMClient.cache._cache : fingerprint -> CacheEntry
    hcall,      \* history: the last call made on the ConnectionHealth
    hist,       \* history: the calls made since the breaker was last closed with 0 failures
    probe_failed_at, \* history: time of the last record_failure made in HALF_OPEN, -1 if none
    ccall,      \* history: the last call made on the ResponseCache
    last_set,   \* history: fingerprint -> the most recent set for it
    rate_timestamps, \* AishDaemon._rate_limiter._timestamps
    session,    \* AishDaemon.session.entries
    config,     \* AishDaemon.config, a snapshot
    llm_config, \* LLMClient.config, a snapshot
    last_activity, \* AishDaemon._last_activity
    pc,         \* connection -> where its _handle_connection task stands
    cur,        \* connection -> the request its handler is serving, and the handler's locals
    n_valid,    \* history: connection -> request lines read and passed to handle_request
    n_written,  \* history: connection -> response lines written
    last_resp,  \* history: the last response line written and the request it answers
    lcall,      \* history: the last LLMClient.complete call, up to its first suspension
    last_sent,  \* history: the last request sent to the provider
    last_read,  \* history: the last line a connection loop got from readline
    rcall,      \* history: the last RateLimiter.allow call
    accepted,   \* history: the times of the allow calls that returned True
    adds,       \* history: the commands and output lines given to SessionBuffer.add
    life,       \* the server socket, the files and the tasks of the process
    latencies,  \* history: the latencies LLMClient.complete gave to record_success
    arg,        \* the arguments of the function under check
    res,        \* its result, once it has been applied
    boot        \* the start commands, the daemon processes, the PID file and the socket file

vars == <<now, health, cache, hcall, hist, probe_failed_at, ccall, last_set,
          rate_timestamps, session, config, llm_config, last_activity,
          pc, cur, n_valid, n_written, last_resp, lcall, last_sent,
          last_read, rcall, accepted, adds, life, latencies, arg, res, boot>>

(***************************************************************************)
(* Bounds of the model                                                     *)
(***************************************************************************)
MaxTime == 60        \* the clock stops advancing here
MaxFailures == 4     \* record_failure is not called beyond this many consecutive failures
HistCap == 4         \* calls remembered in hist

(***************************************************************************)
(* ConnectionHealth (llm.py)                                               *)
(***************************************************************************)
FAILURE_THRESHOLD == 3
COOLDOWN_SECONDS == 30
MAX_LATENCY_SAMPLES == 10
HIGH_LATENCY_MS == 2000

CircuitState == {"closed", "open", "half_open"}

ConnectionHealth ==
    [ last_success_time    |-> 0,
      last_failure_time    |-> 0,
      consecutive_failures |-> 0,
      latency_samples      |-> << >>,
      circuit_state        |-> "closed",
      circuit_opened_at    |-> 0 ]

RECURSIVE SumSeq(_)
SumSeq(s) == IF s = << >> THEN 0 ELSE Head(s) + SumSeq(Tail(s))

is_high_latency_at_threshold(h) ==
    /\ h.latency_samples # << >>
    /\ SumSeq(h.latency_samples) >= HIGH_LATENCY_MS * Len(h.latency_samples)

\* avg_latency_ms > HIGH_LATENCY_MS, with the mean sum/len compared without division
is_high_latency(h) ==
    /\ h.latency_samples # << >>
    /\ SumSeq(h.latency_samples) > HIGH_LATENCY_MS * Len(h.latency_samples)

record_success_open_only_half(h, t, latency_ms) ==
    LET samples == Append(h.latency_samples, latency_ms)
    IN [ h EXCEPT !.last_success_time = t,
                  !.consecutive_failures = 0,
                  !.latency_samples =
                      IF Len(samples) > MAX_LATENCY_SAMPLES THEN Tail(samples) ELSE samples,
                  !.circuit_state =
                      IF h.circuit_state = "half_open" THEN "closed" ELSE h.circuit_state ]

\* a success that closes the circuit and leaves the failure count
record_success_keeps_failures(h, t, latency_ms) ==
    LET samples == Append(h.latency_samples, latency_ms)
    IN [ h EXCEPT !.last_success_time = t,
                  !.latency_samples =
                      IF Len(samples) > MAX_LATENCY_SAMPLES THEN Tail(samples) ELSE samples,
                  !.circuit_state =
                      IF h.circuit_state \in {"half_open", "open"}
                      THEN "closed" ELSE h.circuit_state ]

record_success(h, t, latency_ms) ==
    LET samples == Append(h.latency_samples, latency_ms)
    IN [ h EXCEPT !.last_success_time = t,
                  !.consecutive_failures = 0,
                  !.latency_samples =
                      IF Len(samples) > MAX_LATENCY_SAMPLES THEN Tail(samples) ELSE samples,
                  !.circuit_state =
                      IF h.circuit_state \in {"half_open", "open"}
                      THEN "closed" ELSE h.circuit_state ]

record_failure_late_threshold(h, t) ==
    LET n == h.consecutive_failures + 1
    IN IF n > FAILURE_THRESHOLD /\ h.circuit_state # "open"
       THEN [ h EXCEPT !.last_failure_time = t, !.consecutive_failures = n,
                       !.circuit_state = "open", !.circuit_opened_at = t ]
       ELSE [ h EXCEPT !.last_failure_time = t, !.consecutive_failures = n ]

record_failure_closed_only(h, t) ==
    LET n == h.consecutive_failures + 1
    IN IF n >= FAILURE_THRESHOLD /\ h.circuit_state = "closed"
       THEN [ h EXCEPT !.last_failure_time = t, !.consecutive_failures = n,
                       !.circuit_state = "open", !.circuit_opened_at = t ]
       ELSE [ h EXCEPT !.last_failure_time = t, !.consecutive_failures = n ]

\* a failure that leaves last_failure_time as it was
record_failure_keeps_time(h, t) ==
    LET n == h.consecutive_failures + 1
    IN IF n >= FAILURE_THRESHOLD /\ h.circuit_state # "open"
       THEN [ h EXCEPT !.consecutive_failures = n,
                       !.circuit_state = "open", !.circuit_opened_at = t ]
       ELSE [ h EXCEPT !.consecutive_failures = n ]

\* The elif branch of the source (state == HALF_OPEN) is never taken: a state
\* other than OPEN, HALF_OPEN included, takes the first branch.
record_failure(h, t) ==
    LET n == h.consecutive_failures + 1
    IN IF n >= FAILURE_THRESHOLD /\ h.circuit_state # "open"
       THEN [ h EXCEPT !.last_failure_time = t, !.consecutive_failures = n,
                       !.circuit_state = "open", !.circuit_opened_at = t ]
       ELSE [ h EXCEPT !.last_failure_time = t, !.consecutive_failures = n ]

should_allow_request_strict(h, t) ==
    CASE h.circuit_state = "closed" -> [ret |-> TRUE, health |-> h]
      [] h.circuit_state = "open" ->
            IF t - h.circuit_opened_at > COOLDOWN_SECONDS
            THEN [ret |-> TRUE, health |-> [h EXCEPT !.circuit_state = "half_open"]]
            ELSE [ret |-> FALSE, health |-> h]
      [] OTHER -> [ret |-> TRUE, health |-> h]

should_allow_request_no_cooldown(h, t) ==
    CASE h.circuit_state = "closed" -> [ret |-> TRUE, health |-> h]
      [] h.circuit_state = "open" ->
            [ret |-> TRUE, health |-> [h EXCEPT !.circuit_state = "half_open"]]
      [] OTHER -> [ret |-> TRUE, health |-> h]

\* a breaker that never lets a probe through
should_allow_request_stays_open(h, t) ==
    CASE h.circuit_state = "closed" -> [ret |-> TRUE, health |-> h]
      [] h.circuit_state = "open" -> [ret |-> FALSE, health |-> h]
      [] OTHER -> [ret |-> TRUE, health |-> h]

\* Returns the answer and the ConnectionHealth after the call.
should_allow_request(h, t) ==
    CASE h.circuit_state = "closed" -> [ret |-> TRUE, health |-> h]
      [] h.circuit_state = "open" ->
            IF t - h.circuit_opened_at >= COOLDOWN_SECONDS
            THEN [ret |-> TRUE, health |-> [h EXCEPT !.circuit_state = "half_open"]]
            ELSE [ret |-> FALSE, health |-> h]
      [] OTHER -> [ret |-> TRUE, health |-> h]

(***************************************************************************)
(* ResponseCache (llm.py).  A fingerprint is the md5 digest _make_key      *)
(* computes; the operators below take the fingerprint.                     *)
(***************************************************************************)
CACHE_TTL == 60
CACHE_SWEEP_SIZE == 200

\* _evict: drop every entry older than the TTL
Evict(c, t) ==
    LET live == {k \in DOMAIN c : ~ (t - c[k].timestamp > CACHE_TTL)}
    IN [k \in live |-> c[k]]

CacheGet_no_ttl(c, key, t) ==
    IF key \notin DOMAIN c
    THEN [hit |-> FALSE, response |-> << >>, cache |-> c]
    ELSE [hit |-> TRUE, response |-> c[key].response, cache |-> c]

\* get: hit = FALSE stands for the None result
CacheGet(c, key, t) ==
    IF key \notin DOMAIN c
    THEN [hit |-> FALSE, response |-> << >>, cache |-> c]
    ELSE IF t - c[key].timestamp > CACHE_TTL
         THEN [hit |-> FALSE, response |-> << >>,
               cache |-> [k \in DOMAIN c \ {key} |-> c[k]]]
         ELSE [hit |-> TRUE, response |-> c[key].response, cache |-> c]

CacheSet(c, value, key, t) ==
    LET c1 == [k \in DOMAIN c \cup {key} |->
                  IF k = key THEN [response |-> value, timestamp |-> t] ELSE c[k]]
    IN IF Cardinality(DOMAIN c1) > CACHE_SWEEP_SIZE THEN Evict(c1, t) ELSE c1

EmptyCache == [k \in {} |-> [response |-> << >>, timestamp |-> 0]]

(***************************************************************************)
(* Strings (sequences of characters) and the str methods the daemon uses   *)
(***************************************************************************)
Letters == {"a", "b", "c", "d", "e", "f", "g", "i", "l", "m", "o", "r", "s", "t",
            "w", "x", "p", "A", "B", "C", "D", "E", "R", "T"}
Digits == {"0", "1", "2"}
Whitespace == {" ", "\n", "\t"}

isspace(ch) == ch \in Whitespace
isalpha(ch) == ch \in Letters
\* \w of the re module
IsWordChar(ch) == ch \in Letters \cup Digits \cup {"_"}

RECURSIVE rstrip(_)
rstrip(s) ==
    IF s # << >> /\ isspace(s[Len(s)]) THEN rstrip(SubSeq(s, 1, Len(s) - 1)) ELSE s

RECURSIVE lstrip(_)
lstrip(s) == IF s # << >> /\ isspace(Head(s)) THEN lstrip(Tail(s)) ELSE s

strip(s) == lstrip(rstrip(s))

\* "\n" in s
HasNewline(s) == \E i \in 1..Len(s) : s[i] = "\n"

\* s.split("\n")[0]
FirstLine(s) ==
    IF HasNewline(s)
    THEN LET i == CHOOSE i \in 1..Len(s) :
                    s[i] = "\n" /\ \A j \in 1..(i - 1) : s[j] # "\n"
         IN SubSeq(s, 1, i - 1)
    ELSE s

StartsWith(s, p) == Len(s) >= Len(p) /\ SubSeq(s, 1, Len(p)) = p
EndsWith(s, p) == Len(s) >= Len(p) /\ SubSeq(s, Len(s) - Len(p) + 1, Len(s)) = p

\* the longest run of characters satisfying the class, from position i on
RECURSIVE RunEnd(_, _, _)
RunEnd(s, i, Class) ==
    IF i <= Len(s) /\ s[i] \in Class THEN RunEnd(s, i + 1, Class) ELSE i

(***************************************************************************)
(* daemon.py: post-processing of suggestions                               *)
(***************************************************************************)
OperatorStart == {"-", "|", ">", "&", ";", "<", "(", ")"}

_ensure_leading_space(buffer, suggestion) ==
    IF suggestion = << >> \/ buffer = << >>
    THEN suggestion
    ELSE IF /\ ~ isspace(buffer[Len(buffer)])
            /\ ~ isspace(suggestion[1])
            /\ suggestion[1] \in OperatorStart
         THEN <<" ">> \o suggestion
         ELSE suggestion

\* the backquote character, which a TLA+ string cannot hold
Backquote == "BQ"
Fence == <<Backquote, Backquote, Backquote>>

\* _FENCE_RE matched against text.strip(): the text opens and closes with a
\* fence; the greedy word pattern takes the word after the opening fence, the
\* optional newline pattern the newline after it, and group 1 (lazy, DOTALL)
\* is what lies before the closing fence.
_strip_code_fences(text) ==
    LET t == strip(text)
        w == RunEnd(t, 4, Letters \cup Digits \cup {"_"})
        b == IF w <= Len(t) /\ t[w] = "\n" THEN w + 1 ELSE w
    IN IF Len(t) >= 6 /\ StartsWith(t, Fence) /\ EndsWith(t, Fence) /\ b <= Len(t) - 2
       THEN strip(SubSeq(t, b, Len(t) - 3))
       ELSE text

\* lines 222-229 of _handle_complete
PostProcess(suggestion) ==
    LET s1 == _strip_code_fences(rstrip(suggestion))
    IN IF HasNewline(s1) THEN rstrip(FirstLine(s1)) ELSE s1

(***************************************************************************)
(* safety.py.  The texts of the model are those the specifications list,  *)
(* or are put together from the pieces they list.  Of DANGEROUS_PATTERNS   *)
(* only the two rm patterns, and of SECRET_PATTERNS only the two           *)
(* Slack-token patterns, the password pattern and the Bearer pattern match *)
(* any of them; these are the patterns of the model, in the source's order.*)
(***************************************************************************)
Lower(ch) ==
    CASE ch = "A" -> "a" [] ch = "B" -> "b" [] ch = "C" -> "c" [] ch = "D" -> "d"
      [] ch = "E" -> "e" [] ch = "R" -> "r" [] ch = "T" -> "t" [] OTHER -> ch

LowerStr(s) == [i \in 1..Len(s) |-> Lower(s[i])]

AllIn(s, a, b, Class) == \A i \in a..b : s[i] \in Class

\* the re word boundary before position i, which holds a word character
WordStartsAt(s, i) == i = 1 \/ ~ IsWordChar(s[i - 1])

\* rm, whitespace, then a flag group holding f (or --force), whitespace, and
\* later on the same line one of / ~ $HOME; case is ignored
MatchesForceDelete(s) ==
    LET t == LowerStr(s)
        n == Len(t)
    IN \E i \in 1..n :
          /\ WordStartsAt(t, i)
          /\ i + 1 <= n /\ t[i] = "r" /\ t[i + 1] = "m"
          /\ \E j \in (i + 3)..n :
                /\ AllIn(t, i + 2, j - 1, Whitespace)
                /\ t[j] = "-"
                /\ \E l \in 1..n :
                      /\ \E k \in (j + 1)..n :
                            /\ k < l
                            /\ AllIn(t, k, l - 1, Whitespace)
                            /\ \/ /\ AllIn(t, j + 1, k - 1, Letters)
                                  /\ \E f \in (j + 1)..(k - 1) : t[f] = "f"
                               \/ SubSeq(t, j, k - 1) = <<"-", "-", "f", "o", "r", "c", "e">>
                      /\ \E q \in l..n :
                            /\ \A x \in l..(q - 1) : t[x] # "\n"
                            /\ \/ t[q] \in {"/", "~"}
                               \/ (q + 4 <= n /\ SubSeq(t, q, q + 4) = <<"$", "h", "o", "m", "e">>)

\* rm, whitespace, a flag group holding r and later f, whitespace, /, and
\* nothing but whitespace up to the end
MatchesRmRfRoot(s) ==
    LET n == Len(s)
    IN \E i \in 1..n :
          /\ WordStartsAt(s, i)
          /\ i + 1 <= n /\ s[i] = "r" /\ s[i + 1] = "m"
          /\ \E j \in (i + 3)..n :
                /\ AllIn(s, i + 2, j - 1, Whitespace)
                /\ s[j] = "-"
                /\ \E k \in (j + 1)..n :
                      /\ AllIn(s, j + 1, k - 1, Letters)
                      /\ \E a \in (j + 1)..(k - 1), b \in (j + 1)..(k - 1) :
                            a < b /\ s[a] = "r" /\ s[b] = "f"
                      /\ \E l \in (k + 1)..n :
                            /\ AllIn(s, k, l - 1, Whitespace)
                            /\ s[l] = "/"
                            /\ AllIn(s, l + 1, n, Whitespace)

NoWarning == "None"

\* the first matching pattern's description, NoWarning for None
check_dangerous(command) ==
    CASE MatchesForceDelete(command) -> "Recursive force-delete on important path"
      [] MatchesRmRfRoot(command) -> "rm -rf /"
      [] OTHER -> NoWarning

\* a placeholder of two words
Redacted_with_space == <<"[", "R", "E", "D", " ", "A", "C", "T", "E", "D", "]">>

Redacted == <<"[", "R", "E", "D", "A", "C", "T", "E", "D", "]">>
TokenChars == Letters \cup Digits \cup {"-"}

\* pattern.sub("[REDACTED]", s) for a pattern that is a prefix followed by one
\* or more token characters, case ignored: leftmost matches, each as long as
\* it can be, from position i on
RECURSIVE SubPrefixed(_, _, _)
SubPrefixed(s, prefix, i) ==
    IF i > Len(s)
    THEN << >>
    ELSE LET p == Len(prefix)
         IN IF /\ i + p <= Len(s)
               /\ LowerStr(SubSeq(s, i, i + p - 1)) = prefix
               /\ s[i + p] \in TokenChars
            THEN Redacted \o SubPrefixed(s, prefix, RunEnd(s, i + p, TokenChars))
            ELSE <<s[i]>> \o SubPrefixed(s, prefix, i + 1)

Password == <<"p", "a", "s", "s", "w", "o", "r", "d">>

\* where a match of (password\s*[=:]\s*)['"]?(\S+)['"]? that starts at i has
\* its first character after the prefix group, 0 where none starts at i.
\* The optional quotes are characters that are not spaces, so they do not
\* change what is matched: the whole run of such characters from there on.
PasswordValueAt(s, i) ==
    IF /\ i + Len(Password) - 1 <= Len(s)
       /\ LowerStr(SubSeq(s, i, i + Len(Password) - 1)) = Password
    THEN LET sep == RunEnd(s, i + Len(Password), Whitespace)
         IN IF sep <= Len(s) /\ s[sep] \in {"=", ":"}
            THEN LET q == RunEnd(s, sep + 1, Whitespace)
                 IN IF q <= Len(s) THEN q ELSE 0
            ELSE 0
    ELSE 0

RECURSIVE RunEndNonSpace(_, _)
RunEndNonSpace(s, i) ==
    IF i <= Len(s) /\ s[i] \notin Whitespace THEN RunEndNonSpace(s, i + 1) ELSE i

\* pattern.sub(r"\1[REDACTED]", s) for the password pattern, from position i
\* on: the prefix group is kept, the value is replaced
RECURSIVE SubPassword(_, _)
SubPassword(s, i) ==
    IF i > Len(s)
    THEN << >>
    ELSE LET q == PasswordValueAt(s, i)
         IN IF q > 0
            THEN SubSeq(s, i, q - 1) \o Redacted \o SubPassword(s, RunEndNonSpace(s, q))
            ELSE <<s[i]>> \o SubPassword(s, i + 1)

Bearer == <<"b", "e", "a", "r", "e", "r">>
BEARER_MIN_LENGTH == 20
BearerChars == Letters \cup Digits \cup {".", "_", "-"}

\* where a match of (Bearer\s+)[a-zA-Z0-9._-]{20,} that starts at i ends
\* (the position after it), 0 where none starts at i
BearerEndAt(s, i) ==
    IF /\ i + Len(Bearer) - 1 <= Len(s)
       /\ LowerStr(SubSeq(s, i, i + Len(Bearer) - 1)) = Bearer
    THEN LET q == RunEnd(s, i + Len(Bearer), Whitespace)
             e == RunEnd(s, q, BearerChars)
         IN IF q > i + Len(Bearer) /\ e - q >= BEARER_MIN_LENGTH THEN e ELSE 0
    ELSE 0

\* pattern.sub("[REDACTED]", s) for the Bearer pattern, from position i on:
\* the pattern has one group, so the whole match is replaced
RECURSIVE SubBearer(_, _)
SubBearer(s, i) ==
    IF i > Len(s)
    THEN << >>
    ELSE LET e == BearerEndAt(s, i)
         IN IF e > 0
            THEN Redacted \o SubBearer(s, e)
            ELSE <<s[i]>> \o SubBearer(s, i + 1)

\* SECRET_PATTERNS applied in order
sanitize_text(text) ==
    LET r1 == SubPrefixed(text, <<"x", "o", "x", "b", "-">>, 1)
        r2 == SubPrefixed(r1, <<"x", "o", "x", "p", "-">>, 1)
        r3 == SubPassword(r2, 1)
    IN SubBearer(r3, 1)

sanitize_history(history) == [i \in 1..Len(history) |-> sanitize_text(history[i])]

sanitize_output(output) == sanitize_text(output)

(***************************************************************************)
(* daemon.py: RateLimiter and SessionBuffer                                *)
(***************************************************************************)
RATE_LIMIT_RPM == 60
RATE_WINDOW == 60
MAX_ENTRIES == 20
MAX_OUTPUT_LINES == 20

RECURSIVE DropOld_window_end(_, _)
DropOld_window_end(ts, t) ==
    IF ts # << >> /\ t - Head(ts) >= RATE_WINDOW
    THEN DropOld_window_end(Tail(ts), t) ELSE ts

\* the while loop of allow: timestamps older than the window leave the deque
RECURSIVE DropOld(_, _)
DropOld(ts, t) ==
    IF ts # << >> /\ t - Head(ts) > RATE_WINDOW THEN DropOld(Tail(ts), t) ELSE ts

\* RateLimiter.allow: the answer and the timestamps after the call
allow(ts, t) ==
    LET kept == DropOld(ts, t)
    IN IF Len(kept) >= RATE_LIMIT_RPM
       THEN [ret |-> FALSE, timestamps |-> kept]
       ELSE [ret |-> TRUE, timestamps |-> Append(kept, t)]

\* str.splitlines for the newline character
RECURSIVE splitlines(_)
splitlines(s) ==
    IF s = << >>
    THEN << >>
    ELSE IF HasNewline(s)
         THEN <<FirstLine(s)>> \o splitlines(SubSeq(s, Len(FirstLine(s)) + 2, Len(s)))
         ELSE <<s>>

\* "\n".join(lines)
RECURSIVE JoinLines(_)
JoinLines(lines) ==
    IF lines = << >> THEN << >>
    ELSE IF Len(lines) = 1 THEN lines[1]
    ELSE lines[1] \o <<"\n">> \o JoinLines(Tail(lines))

LastN(q, n) == IF Len(q) > n THEN SubSeq(q, Len(q) - n + 1, Len(q)) ELSE q

\* SessionBuffer.add on a deque without maxlen that refuses an entry when full
SessionAdd_keep_oldest(entries, command, output) ==
    IF Len(entries) >= MAX_ENTRIES
    THEN entries
    ELSE Append(entries,
                [command |-> command,
                 output |-> JoinLines(LastN(splitlines(output), MAX_OUTPUT_LINES))])

\* SessionBuffer.add on a deque(maxlen=20)
SessionAdd(entries, command, output) ==
    LastN(Append(entries,
                 [command |-> command,
                  output |-> JoinLines(LastN(splitlines(output), MAX_OUTPUT_LINES))]),
          MAX_ENTRIES)

(***************************************************************************)
(* llm.py: LLMClient.complete, in two parts: up to the provider call, and  *)
(* from the provider's answer on.  A cache key is the tuple of key parts,  *)
(* NoKey for None.                                                         *)
(***************************************************************************)
NoKey == << >>

\* "|".join(parts)
RECURSIVE JoinBar(_)
JoinBar(parts) ==
    IF parts = << >> THEN << >>
    ELSE IF Len(parts) = 1 THEN parts[1]
    ELSE parts[1] \o <<"|">> \o JoinBar(Tail(parts))

\* _make_key: md5 is taken to be free of collisions, so the digest is
\* represented by the string it is computed from
_make_key(parts) == JoinBar(parts)

\* str(hash(s)): the hash is taken to be free of collisions and is
\* represented by the string it is computed from
HashStr(s) == s

complete_begin_counting(h, ca, key, t) ==
    LET g == IF key # NoKey THEN CacheGet(ca, _make_key(key), t)
             ELSE [hit |-> FALSE, response |-> << >>, cache |-> ca]
        a == should_allow_request(h, t)
    IN IF g.hit
       THEN [outcome |-> "cached", text |-> g.response, health |-> h, cache |-> g.cache]
       ELSE IF ~ a.ret
            THEN [outcome |-> "rejected", text |-> << >>,
                  health |-> record_failure(a.health, t), cache |-> g.cache]
            ELSE [outcome |-> "send", text |-> << >>, health |-> a.health,
                  cache |-> g.cache]

\* lines 197-209: the cache lookup and the breaker check
complete_begin(h, ca, key, t) ==
    LET g == IF key # NoKey THEN CacheGet(ca, _make_key(key), t)
             ELSE [hit |-> FALSE, response |-> << >>, cache |-> ca]
        a == should_allow_request(h, t)
    IN IF g.hit
       THEN [outcome |-> "cached", text |-> g.response, health |-> h, cache |-> g.cache]
       ELSE IF ~ a.ret
            THEN [outcome |-> "rejected", text |-> << >>, health |-> a.health,
                  cache |-> g.cache]
            ELSE [outcome |-> "send", text |-> << >>, health |-> a.health,
                  cache |-> g.cache]

\* complete() storing whatever text a successful call returned
complete_end_stores_empty(h, ca, key, t, start, ok, text) ==
    IF ok
    THEN [text |-> text,
          health |-> record_success(h, t, (t - start) * 1000),
          cache |-> IF key # NoKey
                    THEN CacheSet(ca, text, _make_key(key), t) ELSE ca]
    ELSE [text |-> << >>, health |-> record_failure(h, t), cache |-> ca]

\* lines 211-232: the provider answered (ok, with text) or the call raised
complete_end(h, ca, key, t, start, ok, text) ==
    IF ok
    THEN [text |-> text,
          health |-> record_success(h, t, (t - start) * 1000),
          cache |-> IF key # NoKey /\ text # << >>
                    THEN CacheSet(ca, text, _make_key(key), t) ELSE ca]
    ELSE [text |-> << >>, health |-> record_failure(h, t), cache |-> ca]

(***************************************************************************)
(* History variables.  They record calls; no operation reads them.         *)
(***************************************************************************)
NoCall == [op |-> "none", at |-> 0, ret |-> TRUE, pre |-> ConnectionHealth]

\* hist after a call that left the ConnectionHealth as h2
HistAfter(op, ret, h2) ==
    IF h2.circuit_state = "closed" /\ h2.consecutive_failures = 0
    THEN << >>
    ELSE IF Len(hist) < HistCap
         THEN Append(hist, [op |-> op, at |-> now, ret |-> ret])
         ELSE << [op |-> "overflow", at |-> now, ret |-> ret] >>

NoteHealthCall(op, ret, h2) ==
    /\ hcall' = [op |-> op, at |-> now, ret |-> ret, pre |-> health]
    /\ hist' = HistAfter(op, ret, h2)
    /\ probe_failed_at' =
          CASE op = "record_failure" /\ health.circuit_state = "half_open" -> now
            [] op = "record_success" -> -1
            [] OTHER -> probe_failed_at

NoCacheCall == [op |-> "none", key |-> 0, at |-> 0, hit |-> FALSE, response |-> << >>,
                had |-> FALSE, had_at |-> 0]

healthVars == <<health, hcall, hist, probe_failed_at>>
\* the call histories of SpecHealth and SpecCache, which the daemon's
\* specifications leave alone
callHistory == <<hcall, hist, probe_failed_at, ccall, last_set>>
cacheVars == <<cache, ccall, last_set>>
\* the call histories of the RateLimiter and the SessionBuffer, and the
\* process state, which the dispatcher's actions leave alone
unitVars == <<rcall, accepted, adds, life, arg, res, boot>>
daemonVars == <<rate_timestamps, session, config, llm_config, last_activity,
                pc, cur, n_valid, n_written, last_resp, lcall, last_sent,
                last_read, unitVars, latencies>>

InitHealth ==
    /\ health = ConnectionHealth
    /\ hcall = NoCall
    /\ hist = << >>
    /\ probe_failed_at = -1

InitCache ==
    /\ cache = EmptyCache
    /\ ccall = NoCacheCall
    /\ last_set = EmptyCache

(***************************************************************************)
(* The daemon's inputs: connections, request objects, provider answers     *)
(***************************************************************************)
MaxReads == 2        \* request objects read, over all connections

Conns == {"c1", "c2"}
Configs == {"A", "B"}

\* A request object.  A field the client left out holds the default that
\* data.get gives it; has_id tells whether request_id was sent.
BaseRequest ==
    [ type |-> "complete", has_id |-> TRUE, request_id |-> <<"r", "1">>,
      buffer |-> << >>, cwd |-> <<"/">>, history |-> << <<"l", "s">> >>,
      last_command |-> << >>, last_output |-> << >>,
      prompt |-> << >>, failed_command |-> << >>, stderr |-> << >>, query |-> << >> ]

ReqAuto == [BaseRequest EXCEPT !.buffer = <<"l", "s">>]
ReqAutoNoId == [BaseRequest EXCEPT !.buffer = <<"f">>, !.has_id = FALSE, !.request_id = << >>]
ReqProactive ==
    [BaseRequest EXCEPT !.last_command = <<"l", "s">>,
                        !.last_output = <<"x", "o", "x", "b", "-", "1", "\n", "o">>]
\* a proactive request whose last_output ends with a newline
ReqProactiveNewline ==
    [BaseRequest EXCEPT !.last_command = <<"c", "d">>,
                        !.last_output = <<"o", "k", "\n">>]
ReqNl == [BaseRequest EXCEPT !.type = "nl", !.prompt = <<"g", "o">>]
ReqErrorCorrect ==
    [BaseRequest EXCEPT !.type = "error_correct", !.failed_command = <<"l", "s", "s">>,
                        !.stderr = <<"x", "o", "x", "p", "-", "2">>]
ReqHistorySearch == [BaseRequest EXCEPT !.type = "history_search", !.query = <<"l">>]
ReqReload == [BaseRequest EXCEPT !.type = "reload_config"]
ReqUnknown == [BaseRequest EXCEPT !.type = "bogus"]

Requests == {ReqAuto, ReqAutoNoId, ReqProactive, ReqNl, ReqErrorCorrect,
             ReqHistorySearch, ReqReload, ReqUnknown}

\* What the provider adapter returns on success: the content, stripped.
ProviderTexts == { << >>, <<"l", "s">>, <<"-", "i">> }

NoCur ==
    [ data |-> BaseRequest, kind |-> "idle", seq |-> 0, attempt |-> 0, start |-> 0,
      calls |-> 0, key |-> NoKey, model_from |-> "A", read_at |-> 0,
      pre_health |-> ConnectionHealth, first |-> "none",
      messages |-> [kind |-> "none"], results |-> << >> ]

NoResponse ==
    [ conn |-> "none", req |-> BaseRequest, resp |-> [type |-> "none"], seq |-> 0,
      calls |-> 0, read_at |-> 0, pre_health |-> ConnectionHealth, first |-> "none",
      results |-> << >> ]

NoLLMCall ==
    [ outcome |-> "none", text |-> << >>, key |-> NoKey, at |-> 0,
      pre_health |-> ConnectionHealth, post_health |-> ConnectionHealth,
      pre_cache |-> EmptyCache, post_cache |-> EmptyCache ]

NoSent == [conn |-> "none", at |-> 0, model_from |-> "A", provider_from |-> "A",
           messages |-> [kind |-> "none"]]

\* kind: "object", "non_object", "invalid_json", "undecodable" or "eof";
\* written_before: the responses written on the connection before the line
NoRead == [conn |-> "none", kind |-> "none", written_before |-> 0]

NoAllowCall == [at |-> 0, ret |-> TRUE, pre |-> << >>, called |-> FALSE, n |-> 0]

\* AishDaemon.start has bound the socket and written the PID file, no signal
\* has arrived.  idle is the time in seconds since the last handle_request as
\* start's loop sees it after each sleep, up to the idle timeout;
\* waits_for_connections tells whether Server.wait_closed of the running
\* Python waits for the open connections (3.12 and later) or returns at once.
InitLife ==
    [ accepting |-> TRUE, socket_file |-> TRUE, pid_file |-> TRUE,
      signalled |-> FALSE, stop_task |-> "none", main |-> "sleeping",
      pool_open |-> TRUE, idle |-> 0, exited |-> FALSE,
      waits_for_connections |-> FALSE ]

MaxStarts == 3

\* the invocations of `start`; the daemon that invocation i spawns has pid i
Starts == 1..MaxStarts

\* no start command has been given: no daemon process, no PID file, no
\* socket file (0 is no file; otherwise the pid in the PID file and the pid
\* of the process that bound the socket file)
InitBoot ==
    [ cli |-> [i \in Starts |-> "idle"], daemon |-> [i \in Starts |-> "none"],
      pid_file |-> 0, socket_file |-> 0 ]

\* no function is under check
NoArg == [fn |-> "none"]
NoRes == [done |-> FALSE]

InitDaemon ==
    /\ rate_timestamps = << >>
    /\ session = << >>
    /\ config = "A"
    /\ llm_config = "A"
    /\ last_activity = 0
    /\ pc = [c \in Conns |-> "read"]
    /\ cur = [c \in Conns |-> NoCur]
    /\ n_valid = [c \in Conns |-> 0]
    /\ n_written = [c \in Conns |-> 0]
    /\ last_resp = NoResponse
    /\ lcall = NoLLMCall
    /\ last_sent = NoSent
    /\ last_read = NoRead
    /\ rcall = NoAllowCall
    /\ accepted = << >>
    /\ adds = << >>
    /\ life = InitLife
    /\ arg = NoArg
    /\ res = NoRes
    /\ boot = InitBoot
    /\ latencies = << >>

\* The clock advances by d seconds.
Tick(d) ==
    /\ now + d <= MaxTime
    /\ now' = now + d

(***************************************************************************)
(* SpecHealth: every sequence of calls on one ConnectionHealth, at any     *)
(* times.                                                                  *)
(***************************************************************************)
HealthSteps == {15, 30}
HealthLatencies == {100}

HRecordSuccess(latency_ms) ==
    /\ health' = record_success(health, now, latency_ms)
    /\ NoteHealthCall("record_success", TRUE, health')
    /\ UNCHANGED <<now, cacheVars, daemonVars>>

HRecordFailure ==
    /\ health.consecutive_failures < MaxFailures
    /\ health' = record_failure(health, now)
    /\ NoteHealthCall("record_failure", TRUE, health')
    /\ UNCHANGED <<now, cacheVars, daemonVars>>

HShouldAllow ==
    LET r == should_allow_request(health, now)
    IN /\ health' = r.health
       /\ NoteHealthCall("should_allow_request", r.ret, r.health)
       /\ UNCHANGED <<now, cacheVars, daemonVars>>

HTick ==
    /\ \E d \in HealthSteps : Tick(d)
    /\ UNCHANGED <<healthVars, cacheVars, daemonVars>>

InitHealthSpec ==
    /\ now = 0
    /\ InitHealth
    /\ InitCache
    /\ InitDaemon

NextHealth ==
    \/ \E l \in HealthLatencies : HRecordSuccess(l)
    \/ HRecordFailure
    \/ HShouldAllow
    \/ HTick

SpecHealth == InitHealthSpec /\ [][NextHealth]_vars

(***************************************************************************)
(* Claims about the ConnectionHealth, checked under SpecHealth             *)
(***************************************************************************)

\* C3: immediately after any record_success, whatever calls came before and
\* whatever the circuit was (closed, open or half_open), the state has
\* consecutive_failures = 0 and circuit = closed.
C3_SuccessResets ==
    hcall.op = "record_success" =>
        /\ health.consecutive_failures = 0
        /\ health.circuit_state = "closed"

\* C3 witness: a success was recorded while the circuit was open.
C3_Witness ==
    /\ hcall.op = "record_success"
    /\ hcall.pre.circuit_state = "open"
    /\ hcall.pre.consecutive_failures >= FAILURE_THRESHOLD
    /\ health.circuit_state = "closed"

FailuresOnly(n) ==
    /\ Len(hist) >= n
    /\ \A i \in 1..n : hist[i].op = "record_failure"

\* C4: from a closed circuit with zero failures, the circuit is still closed
\* after 1 and after 2 consecutive record_failure calls, it is open after the
\* 3rd with circuit_opened_at = the time of that call, and a
\* should_allow_request made right after (before the cooldown has run)
\* returns false.
C4_OpensOnThird ==
    /\ (Len(hist) \in {1, 2} /\ FailuresOnly(Len(hist))) =>
            health.circuit_state = "closed"
    /\ (Len(hist) = 3 /\ FailuresOnly(3)) =>
            /\ health.circuit_state = "open"
            /\ health.circuit_opened_at = hist[3].at
            /\ hcall.pre.circuit_state = "closed"
    /\ (Len(hist) = 4 /\ FailuresOnly(3) /\ hist[4].op = "should_allow_request"
            /\ hist[4].at - hist[3].at < COOLDOWN_SECONDS) =>
            hist[4].ret = FALSE

\* C4 witness: three failures from the fresh state, then a rejected request.
C4_Witness ==
    /\ Len(hist) = 4
    /\ FailuresOnly(3)
    /\ hist[3].at > 0
    /\ hist[4].op = "should_allow_request"
    /\ hist[4].at = hist[3].at
    /\ hist[4].ret = FALSE

\* C5: in state open, should_allow_request returns true exactly when
\* now - circuit_opened_at >= 30 s; when it returns true the circuit becomes
\* half_open, and when it returns false the whole state is unchanged.
C5_CooldownExact ==
    (hcall.op = "should_allow_request" /\ hcall.pre.circuit_state = "open") =>
        /\ hcall.ret = (hcall.at - hcall.pre.circuit_opened_at >= COOLDOWN_SECONDS)
        /\ hcall.ret => health = [hcall.pre EXCEPT !.circuit_state = "half_open"]
        /\ ~ hcall.ret => health = hcall.pre

\* C5 witness: a request allowed at exactly 30 s after the circuit opened.
C5_Witness ==
    /\ hcall.op = "should_allow_request"
    /\ hcall.pre.circuit_state = "open"
    /\ hcall.at - hcall.pre.circuit_opened_at = COOLDOWN_SECONDS
    /\ hcall.ret
    /\ health.circuit_state = "half_open"

\* C6: in state half_open, the next record_failure moves the circuit to open
\* and sets circuit_opened_at to the time of that failure; until a further
\* 30 s have passed since it, should_allow_request returns false (as long as
\* no success is recorded in between).
C6_ProbeFailureReopens ==
    /\ (hcall.op = "record_failure" /\ hcall.pre.circuit_state = "half_open") =>
            /\ health.circuit_state = "open"
            /\ health.circuit_opened_at = hcall.at
    /\ (hcall.op = "should_allow_request" /\ probe_failed_at >= 0
            /\ hcall.at - probe_failed_at < COOLDOWN_SECONDS) =>
            hcall.ret = FALSE

\* C6 witness: a request rejected after a failed probe, later than 30 s after
\* the circuit first opened.
C6_Witness ==
    /\ hcall.op = "should_allow_request"
    /\ probe_failed_at >= COOLDOWN_SECONDS
    /\ hcall.at > probe_failed_at
    /\ hcall.at - probe_failed_at < COOLDOWN_SECONDS
    /\ hcall.ret = FALSE

(***************************************************************************)
(* SpecCache: every sequence of get and set calls on one ResponseCache.    *)
(* The cache starts empty or holding CACHE_SWEEP_SIZE entries stored at    *)
(* time 0 (what that many set calls with distinct keys leave behind).      *)
(***************************************************************************)
MaxCacheTime == 90
CacheSteps == {30}
CachePrefill == {0, CACHE_SWEEP_SIZE}
CacheKeys == {1, CACHE_SWEEP_SIZE + 1, CACHE_SWEEP_SIZE + 2}
CacheValues == { <<"x">>, <<"y">> }

NoteCacheCall(op, key, hit, response) ==
    ccall' = [op |-> op, key |-> key, at |-> now, hit |-> hit, response |-> response,
              had |-> key \in DOMAIN cache,
              had_at |-> IF key \in DOMAIN cache THEN cache[key].timestamp ELSE 0]

NoteSet(value, key) ==
    last_set' = [k \in DOMAIN last_set \cup {key} |->
                    IF k = key THEN [response |-> value, timestamp |-> now]
                    ELSE last_set[k]]

CGet(key) ==
    LET r == CacheGet(cache, key, now)
    IN /\ cache' = r.cache
       /\ NoteCacheCall("get", key, r.hit, r.response)
       /\ UNCHANGED <<now, last_set, healthVars, daemonVars>>

CSet(value, key) ==
    /\ cache' = CacheSet(cache, value, key, now)
    /\ NoteCacheCall("set", key, FALSE, value)
    /\ NoteSet(value, key)
    /\ UNCHANGED <<now, healthVars, daemonVars>>

CTick ==
    /\ \E d \in CacheSteps : now + d <= MaxCacheTime /\ now' = now + d
    /\ UNCHANGED <<healthVars, cacheVars, daemonVars>>

InitCacheSpec ==
    /\ now = 0
    /\ InitHealth
    /\ \E n \in CachePrefill :
          /\ cache = [k \in 1..n |-> [response |-> <<"x">>, timestamp |-> 0]]
          /\ last_set = cache
    /\ ccall = NoCacheCall
    /\ InitDaemon

NextCache ==
    \/ \E k \in CacheKeys : CGet(k)
    \/ \E k \in CacheKeys, v \in CacheValues : CSet(v, k)
    \/ CTick

SpecCache == InitCacheSpec /\ [][NextCache]_vars

(***************************************************************************)
(* Claims about the ResponseCache, checked under SpecCache                 *)
(***************************************************************************)

\* C8: a get returns a value X only if the most recent set for the same
\* fingerprint stored X at most TTL seconds before the get; a get that finds
\* an entry older than TTL returns nothing and removes that entry.
C8_GetFreshOnly ==
    /\ (ccall.op = "get" /\ ccall.hit) =>
            /\ ccall.key \in DOMAIN last_set
            /\ last_set[ccall.key].response = ccall.response
            /\ ccall.at - last_set[ccall.key].timestamp <= CACHE_TTL
    /\ (ccall.op = "get" /\ ccall.had /\ ccall.at - ccall.had_at > CACHE_TTL) =>
            /\ ~ ccall.hit
            /\ ccall.key \notin DOMAIN cache

\* C8 witness: a get answered from an entry that is exactly TTL seconds old
\* and was last set to "y".
C8_Witness ==
    /\ ccall.op = "get"
    /\ ccall.hit
    /\ ccall.response = <<"y">>
    /\ ccall.at - last_set[ccall.key].timestamp = CACHE_TTL

\* C9: immediately after every set the cache holds at most 200 entries, also
\* when more than 200 distinct keys are inserted within one TTL period.
C9_AtMostCapacity ==
    ccall.op = "set" => Cardinality(DOMAIN cache) <= CACHE_SWEEP_SIZE

(***************************************************************************)
(* daemon.py: the dispatcher (handle_request and the _handle_* methods)    *)
(* and the connection loop.  A handler runs without interruption from one  *)
(* suspension to the next: it suspends while the provider call is in       *)
(* flight (pc = "await") and in the sleep between two attempts             *)
(* (pc = "sleep"); a response is written in the step that produces it.     *)
(***************************************************************************)
RETRIES == 1

RECURSIVE SumOver(_, _)
SumOver(f, S) ==
    IF S = {} THEN 0
    ELSE LET x == CHOOSE x \in S : TRUE IN f[x] + SumOver(f, S \ {x})

CanRead_concurrent(c) == pc[c] \in {"read", "await"}

\* the loop of _handle_connection reads the next line only after the response
\* to the previous one was written
CanRead(c) == pc[c] = "read"

\* lines 231-243, with check_dangerous given the suggestion without the buffer
CompleteResponse_suggestion_only(data, proactive, text) ==
    LET s0 == IF proactive THEN text ELSE _ensure_leading_space(data.buffer, text)
        suggestion == PostProcess(s0)
        warning == check_dangerous(suggestion)
    IN IF warning # NoWarning
       THEN [type |-> "complete", request_id |-> data.request_id,
             suggestion |-> suggestion, warning |-> warning]
       ELSE [type |-> "complete", request_id |-> data.request_id,
             suggestion |-> suggestion]

\* lines 231-243
CompleteResponse(data, proactive, text) ==
    LET s0 == IF proactive THEN text ELSE _ensure_leading_space(data.buffer, text)
        suggestion == PostProcess(s0)
        warning == check_dangerous(data.buffer \o suggestion)
    IN IF warning # NoWarning
       THEN [type |-> "complete", request_id |-> data.request_id,
             suggestion |-> suggestion, warning |-> warning]
       ELSE [type |-> "complete", request_id |-> data.request_id,
             suggestion |-> suggestion]

\* lines 268-275
NlResponse(command) ==
    IF command # << >> /\ check_dangerous(command) # NoWarning
    THEN [type |-> "nl", command |-> command, warning |-> check_dangerous(command)]
    ELSE [type |-> "nl", command |-> command]

\* json.loads, for the texts the model's provider returns: "[]" and "[d]"
\* with d a digit are lists, a row of digits is a number, and a text of
\* letters or the empty text raises JSONDecodeError
JsonLoads(text) ==
    LET t == strip(text)
    IN CASE t = <<"[", "]">> -> [kind |-> "list", items |-> << >>]
         [] Len(t) = 3 /\ t[1] = "[" /\ t[2] \in Digits /\ t[3] = "]" ->
                [kind |-> "list", items |-> <<t[2]>>]
         [] t # << >> /\ AllIn(t, 1, Len(t), Digits) /\ (Len(t) = 1 \/ t[1] # "0") ->
                [kind |-> "number", items |-> << >>]
         [] OTHER -> [kind |-> "error", items |-> << >>]

\* _handle_history_search without the isinstance test
HistoryResponse_any_json(text) ==
    LET parsed == JsonLoads(text)
    IN [type |-> "history_search",
        results |-> CASE parsed.kind = "list" -> parsed.items
                      [] parsed.kind = "number" -> strip(text)
                      [] OTHER -> << >>]

\* lines 322-330
HistoryResponse(text) ==
    LET parsed == JsonLoads(text)
    IN [type |-> "history_search",
        results |-> IF parsed.kind = "list" THEN parsed.items ELSE << >>]

\* the response a handler builds from the text the LLM client returned
ResponseFor(k, text) ==
    CASE k.kind \in {"autocomplete", "proactive"} ->
            CompleteResponse(k.data, k.kind = "proactive", text)
      [] k.kind = "error_correct" ->
            [type |-> "error_correct", suggestion |-> rstrip(text)]
      [] k.kind = "nl" -> NlResponse(text)
      [] OTHER -> HistoryResponse(text)

\* writer.write(json.dumps(response)); the loop goes back to readline
Respond(c, k, resp) ==
    /\ n_written' = [n_written EXCEPT ![c] = @ + 1]
    /\ last_resp' = [conn |-> c, req |-> k.data, resp |-> resp, seq |-> k.seq,
                     calls |-> k.calls, read_at |-> k.read_at,
                     pre_health |-> k.pre_health, first |-> k.first,
                     results |-> k.results]
    /\ pc' = [pc EXCEPT ![c] = "read"]
    /\ cur' = [cur EXCEPT ![c] = NoCur]

Suspend(c, k, where) ==
    /\ pc' = [pc EXCEPT ![c] = where]
    /\ cur' = [cur EXCEPT ![c] = k]
    /\ UNCHANGED <<n_written, last_resp>>

\* what the caller of LLMClient.complete does with the text it returned:
\* complete_with_retry (nl, history_search) sleeps and tries again after an
\* empty result while attempts are left
Continue_retry_all(c, k, text) ==
    LET k2 == [k EXCEPT !.results = Append(@, text)]
    IN IF text = << >> /\ k.attempt < RETRIES
       THEN Suspend(c, k2, "sleep")
       ELSE Respond(c, k2, ResponseFor(k2, text))

\* results: history, the texts complete() has returned to this handler
Continue(c, k, text) ==
    LET k2 == [k EXCEPT !.results = Append(@, text)]
    IN IF k.kind \in {"nl", "history_search"} /\ text = << >> /\ k.attempt < RETRIES
       THEN Suspend(c, k2, "sleep")
       ELSE Respond(c, k2, ResponseFor(k2, text))

NoLLM_counting ==
    /\ health' = record_failure(health, now)
    /\ UNCHANGED <<cache, callHistory, lcall, last_sent>>

\* a handler's return that is reached without a call of LLMClient.complete
NoLLM == UNCHANGED <<health, cache, callHistory, lcall, last_sent>>

\* LLMClient.complete from its start to the provider call (or to its return
\* when the cache or the breaker settles it), and the caller's next step
CallLLM(c, k, key) ==
    LET r == complete_begin(health, cache, key, now)
        k1 == [k EXCEPT !.key = key,
                        !.first = IF k.first = "none" THEN r.outcome ELSE k.first]
    IN /\ health' = r.health
       /\ cache' = r.cache
       /\ UNCHANGED callHistory
       /\ lcall' = [outcome |-> r.outcome, text |-> r.text, key |-> key, at |-> now,
                    pre_health |-> health, post_health |-> r.health,
                    pre_cache |-> cache, post_cache |-> r.cache]
       /\ IF r.outcome = "send"
          THEN /\ last_sent' = [conn |-> c, at |-> now, model_from |-> k.model_from,
                                provider_from |-> llm_config, messages |-> k.messages]
               /\ Suspend(c, [k1 EXCEPT !.start = now, !.calls = @ + 1], "await")
          ELSE /\ UNCHANGED last_sent
               /\ Continue(c, k1, r.text)

\* the messages built for the provider, as the request fields they embed
AutocompleteMessages(data) ==
    [kind |-> "autocomplete", buffer |-> data.buffer, cwd |-> data.cwd,
     history |-> LastN(sanitize_history(data.history), 5)]

\* proactive_user given the output as the client sent it
ProactiveMessages_raw_output(data, entries) ==
    [kind |-> "proactive", session |-> entries, cwd |-> data.cwd,
     history |-> LastN(sanitize_history(data.history), 5),
     last_command |-> data.last_command,
     last_output |-> data.last_output]

ProactiveMessages(data, entries) ==
    [kind |-> "proactive", session |-> entries, cwd |-> data.cwd,
     history |-> LastN(sanitize_history(data.history), 5),
     last_command |-> data.last_command,
     last_output |-> sanitize_output(data.last_output)]

NlMessages(data) ==
    [kind |-> "nl", prompt |-> data.prompt, cwd |-> data.cwd, buffer |-> data.buffer,
     history |-> LastN(sanitize_history(data.history), 10)]

ErrorCorrectMessages(data) ==
    [kind |-> "error_correct", failed_command |-> data.failed_command,
     stderr |-> sanitize_output(data.stderr), cwd |-> data.cwd]

HistorySearchMessages(data) ==
    [kind |-> "history_search", query |-> data.query,
     history |-> sanitize_history(data.history)]

\* the handler's locals when handle_request starts on a request read on c
Start(c, data, kind) ==
    [NoCur EXCEPT !.data = data, !.kind = kind, !.seq = n_valid[c] + 1,
                  !.read_at = now, !.pre_health = health, !.model_from = config]

\* _handle_complete adding every request that passes the limiter to the session
HandleComplete_records_all(c, data) ==
    LET lim == allow(rate_timestamps, now)
        proactive == data.buffer = << >> /\ data.last_output # << >>
        k == Start(c, data, IF proactive THEN "proactive" ELSE "autocomplete")
        empty == [type |-> "complete", request_id |-> data.request_id,
                  suggestion |-> << >>]
    IN /\ data.type = "complete"
       /\ rate_timestamps' = lim.timestamps
       /\ UNCHANGED <<config, llm_config>>
       /\ IF ~ lim.ret
          THEN /\ Respond(c, k, empty)
               /\ NoLLM
               /\ UNCHANGED session
          ELSE IF proactive
          THEN /\ session' = SessionAdd(session, data.last_command,
                                        sanitize_output(data.last_output))
               /\ IF is_high_latency(health)
                  THEN Respond(c, k, empty) /\ NoLLM
                  ELSE CallLLM(c, [k EXCEPT !.messages = ProactiveMessages(data, session')],
                               << <<"proactive">>, data.last_command, data.cwd,
                                  HashStr(data.last_output) >>)
          ELSE /\ session' = SessionAdd(session, data.buffer,
                                        sanitize_output(data.last_output))
               /\ CallLLM(c, [k EXCEPT !.messages = AutocompleteMessages(data)],
                          << <<"autocomplete">>, data.buffer, data.cwd >>)

\* _handle_complete
HandleComplete(c, data) ==
    LET lim == allow(rate_timestamps, now)
        proactive == data.buffer = << >> /\ data.last_output # << >>
        k == Start(c, data, IF proactive THEN "proactive" ELSE "autocomplete")
        empty == [type |-> "complete", request_id |-> data.request_id,
                  suggestion |-> << >>]
    IN /\ data.type = "complete"
       /\ rate_timestamps' = lim.timestamps
       /\ UNCHANGED <<config, llm_config>>
       /\ IF ~ lim.ret
          THEN /\ Respond(c, k, empty)
               /\ NoLLM
               /\ UNCHANGED session
          ELSE IF proactive
          THEN /\ session' = SessionAdd(session, data.last_command,
                                        sanitize_output(data.last_output))
               /\ IF is_high_latency(health)
                  THEN Respond(c, k, empty) /\ NoLLM
                  ELSE CallLLM(c, [k EXCEPT !.messages = ProactiveMessages(data, session')],
                               << <<"proactive">>, data.last_command, data.cwd,
                                  HashStr(data.last_output) >>)
          ELSE /\ UNCHANGED session
               /\ CallLLM(c, [k EXCEPT !.messages = AutocompleteMessages(data)],
                          << <<"autocomplete">>, data.buffer, data.cwd >>)

\* _handle_nl
HandleNl(c, data) ==
    LET k == Start(c, data, "nl")
    IN /\ data.type = "nl"
       /\ UNCHANGED <<rate_timestamps, session, config, llm_config>>
       /\ IF data.prompt = << >>
          THEN Respond(c, k, [type |-> "nl", command |-> << >>]) /\ NoLLM
          ELSE CallLLM(c, [k EXCEPT !.messages = NlMessages(data)], NoKey)

\* _handle_error_correct
HandleErrorCorrect(c, data) ==
    LET k == Start(c, data, "error_correct")
    IN /\ data.type = "error_correct"
       /\ UNCHANGED <<rate_timestamps, session, config, llm_config>>
       /\ IF data.failed_command = << >>
          THEN Respond(c, k, [type |-> "error_correct", suggestion |-> << >>]) /\ NoLLM
          ELSE CallLLM(c, [k EXCEPT !.messages = ErrorCorrectMessages(data)], NoKey)

\* _handle_history_search returning early on an empty query only
HandleHistorySearch_query_only(c, data) ==
    LET k == Start(c, data, "history_search")
    IN /\ data.type = "history_search"
       /\ UNCHANGED <<rate_timestamps, session, config, llm_config>>
       /\ IF data.query = << >>
          THEN Respond(c, k, [type |-> "history_search", results |-> << >>]) /\ NoLLM
          ELSE CallLLM(c, [k EXCEPT !.messages = HistorySearchMessages(data)], NoKey)

\* _handle_history_search
HandleHistorySearch(c, data) ==
    LET k == Start(c, data, "history_search")
    IN /\ data.type = "history_search"
       /\ UNCHANGED <<rate_timestamps, session, config, llm_config>>
       /\ IF data.query = << >> \/ data.history = << >>
          THEN Respond(c, k, [type |-> "history_search", results |-> << >>]) /\ NoLLM
          ELSE CallLLM(c, [k EXCEPT !.messages = HistorySearchMessages(data)], NoKey)

\* _handle_reload_config swapping the dispatcher's snapshot only
HandleReloadConfig_dispatcher_only(c, data) ==
    LET k == Start(c, data, "reload_config")
    IN /\ data.type = "reload_config"
       /\ UNCHANGED <<rate_timestamps, session>>
       /\ NoLLM
       /\ \/ \E new \in Configs :
                /\ config' = new
                /\ UNCHANGED llm_config
                /\ Respond(c, k, [type |-> "reload_config", ok |-> TRUE])
          \/ /\ UNCHANGED <<config, llm_config>>
             /\ Respond(c, k, [type |-> "reload_config", ok |-> FALSE,
                               message |-> "load failed"])

\* _handle_reload_config: AishConfig.load() gives a snapshot or raises
HandleReloadConfig(c, data) ==
    LET k == Start(c, data, "reload_config")
    IN /\ data.type = "reload_config"
       /\ UNCHANGED <<rate_timestamps, session>>
       /\ NoLLM
       /\ \/ \E new \in Configs :
                /\ config' = new
                /\ llm_config' = new
                /\ Respond(c, k, [type |-> "reload_config", ok |-> TRUE])
          \/ /\ UNCHANGED <<config, llm_config>>
             /\ Respond(c, k, [type |-> "reload_config", ok |-> FALSE,
                               message |-> "load failed"])

\* the else branch of handle_request
HandleUnknown(c, data) ==
    LET k == Start(c, data, "unknown")
    IN /\ data.type \notin {"complete", "nl", "error_correct", "history_search",
                            "reload_config"}
       /\ UNCHANGED <<rate_timestamps, session, config, llm_config>>
       /\ NoLLM
       /\ Respond(c, k, [type |-> "error",
                         message |-> <<"Unknown request type: ", data.type>>])

\* readline gives a line holding a JSON object; handle_request runs up to its
\* first suspension
ReadRequest(c, data, max_reads) ==
    /\ CanRead(c)
    /\ SumOver(n_valid, Conns) < max_reads
    /\ n_valid' = [n_valid EXCEPT ![c] = @ + 1]
    /\ last_activity' = now
    /\ last_read' = [conn |-> c, kind |-> "object", written_before |-> n_written[c]]
    /\ UNCHANGED <<now, unitVars, latencies>>
    /\ \/ HandleComplete(c, data)
       \/ HandleNl(c, data)
       \/ HandleErrorCorrect(c, data)
       \/ HandleHistorySearch(c, data)
       \/ HandleReloadConfig(c, data)
       \/ HandleUnknown(c, data)

\* the provider call of connection c returns (ok, with the text) or raises
\* (a timeout, a connection error, an HTTP error status, any other exception)
ProviderReturn(c, ok, text) ==
    LET k == cur[c]
        e == complete_end(health, cache, k.key, now, k.start, ok, text)
    IN /\ pc[c] = "await"
       /\ health' = e.health
       /\ cache' = e.cache
       /\ UNCHANGED callHistory
       /\ Continue(c, k, e.text)
       /\ latencies' = IF ok THEN Append(latencies, (now - k.start) * 1000)
                       ELSE latencies
       /\ UNCHANGED <<now, rate_timestamps, session, config, llm_config, last_activity,
                      n_valid, lcall, last_sent, last_read, unitVars>>

\* asyncio.sleep(retry_delay) of complete_with_retry is over: the next attempt
Wake(c) ==
    /\ pc[c] = "sleep"
    /\ CallLLM(c, [cur[c] EXCEPT !.attempt = @ + 1], NoKey)
    /\ UNCHANGED <<now, rate_timestamps, session, config, llm_config, last_activity,
                   n_valid, last_read, unitVars, latencies>>

\* the loop got a line (or the end of the stream) on c
NoteRead(c, kind) ==
    last_read' = [conn |-> c, kind |-> kind, written_before |-> n_written[c]]

\* what a read that starts no handler leaves alone
NoHandler ==
    UNCHANGED <<now, healthVars, cacheVars, rate_timestamps, session, config,
                llm_config, cur, n_valid, n_written, last_resp, lcall, last_sent,
                unitVars, latencies>>

\* writer.close() in the finally clause
CloseConnection(c) ==
    /\ pc' = [pc EXCEPT ![c] = "closed"]
    /\ NoHandler

\* readline gives b"": the client closed the connection
ReadEOF(c) ==
    /\ CanRead(c)
    /\ NoteRead(c, "eof")
    /\ CloseConnection(c)
    /\ UNCHANGED last_activity

\* the line's bytes are not UTF-8: line.decode() raises UnicodeDecodeError,
\* which is no JSONDecodeError and no ConnectionResetError or BrokenPipeError,
\* so it leaves the loop through the finally clause
ReadUndecodable(c) ==
    /\ CanRead(c)
    /\ NoteRead(c, "undecodable")
    /\ CloseConnection(c)
    /\ UNCHANGED last_activity

\* json.loads raises JSONDecodeError: the line is logged and skipped
ReadInvalidJson(c) ==
    /\ CanRead(c)
    /\ NoteRead(c, "invalid_json")
    /\ NoHandler
    /\ UNCHANGED <<pc, last_activity>>

\* the line holds a JSON value that is no object: handle_request sets
\* _last_activity, then data.get raises AttributeError before the try block
ReadNonObject(c) ==
    /\ CanRead(c)
    /\ NoteRead(c, "non_object")
    /\ last_activity' = now
    /\ CloseConnection(c)

\* the clock moves on to a later one of the time points
DaemonTick(points) ==
    /\ \E t \in points : t > now /\ now' = t
    /\ UNCHANGED <<healthVars, cacheVars, daemonVars>>

Init ==
    /\ now = 0
    /\ InitHealth
    /\ InitCache
    /\ InitDaemon

\* one step of the daemon, for the connections that are in use, the request
\* objects clients send, the texts the provider returns, the number of
\* requests read and the time points the clock visits
DaemonStep(conns, requests, texts, max_reads, points) ==
    \/ \E c \in conns, data \in requests : ReadRequest(c, data, max_reads)
    \/ \E c \in conns, text \in texts : ProviderReturn(c, TRUE, text)
    \/ \E c \in conns : ProviderReturn(c, FALSE, << >>)
    \/ \E c \in conns : Wake(c)
    \/ \E c \in conns : ReadEOF(c)
    \/ \E c \in conns : ReadUndecodable(c)
    \/ \E c \in conns : ReadInvalidJson(c)
    \/ \E c \in conns : ReadNonObject(c)
    \/ DaemonTick(points)

Next == DaemonStep(Conns, Requests, ProviderTexts, MaxReads, {60})

Spec == Init /\ [][Next]_vars

(***************************************************************************)
(* SpecSerial: two connections that send nl requests (whose handler        *)
(* suspends) and unknown requests (answered at once); one more request is  *)
(* read than under Spec.                                                   *)
(***************************************************************************)
MaxSerialReads == 3
SerialRequests == {ReqNl, ReqUnknown}
SerialTexts == { <<"l", "s">> }

NextSerial == DaemonStep(Conns, SerialRequests, SerialTexts, MaxSerialReads, {60})

SpecSerial == Init /\ [][NextSerial]_vars

(***************************************************************************)
(* SpecBreaker: the requests that reach LLMClient.complete, with enough    *)
(* of them to fill the cache, open the circuit and ask again, at times on  *)
(* both sides of the cooldown and of the cache's TTL.                      *)
(***************************************************************************)
MaxBreakerReads == 4
BreakerConns == {"c1"}
BreakerRequests == {ReqAuto, ReqNl, ReqErrorCorrect}
BreakerTexts == { <<"l", "s">> }
BreakerTimes == {60, 75, 90}

NextBreaker ==
    DaemonStep(BreakerConns, BreakerRequests, BreakerTexts, MaxBreakerReads, BreakerTimes)

SpecBreaker == Init /\ [][NextBreaker]_vars

(***************************************************************************)
(* Claims about the dispatcher, checked under Spec                         *)
(***************************************************************************)

\* C1: for every request of every kind that carries a request_id, the
\* response handle_request returns carries the same request_id.
C1_EchoesRequestId ==
    (last_resp.conn # "none" /\ last_resp.req.has_id) =>
        /\ "request_id" \in DOMAIN last_resp.resp
        /\ last_resp.resp.request_id = last_resp.req.request_id

(***************************************************************************)
(* Claims about the connection loop, checked under SpecSerial              *)
(***************************************************************************)

\* C10: on one connection, whatever the other connection does, the i-th
\* response written answers the i-th valid request read, and the handler of
\* request i+1 does not start before the response to request i is written:
\* while a handler is suspended its request is the first one unanswered and
\* the only one, and the loop is back at readline only with every request
\* answered.
C10_SerialInOrder ==
    \A c \in Conns :
        /\ last_resp.conn = c =>
              /\ last_resp.seq = n_written[c]
              /\ last_resp.resp.type =
                    (IF last_resp.req.type = "nl" THEN "nl" ELSE "error")
        /\ pc[c] \in {"await", "sleep"} =>
              /\ cur[c].seq = n_written[c] + 1
              /\ n_valid[c] = n_written[c] + 1
        /\ pc[c] = "read" => n_valid[c] = n_written[c]

\* C10 witness: the second response on c1, to an nl request that went to the
\* provider, is written while the handler of c2's request is suspended.
C10_Witness ==
    /\ last_resp.conn = "c1"
    /\ last_resp.seq = 2
    /\ n_written["c1"] = 2
    /\ last_resp.req = ReqNl
    /\ last_resp.calls > 0
    /\ pc["c2"] = "await"
    /\ n_valid["c2"] = 1

(***************************************************************************)
(* Claims about the breaker inside LLMClient.complete, checked under       *)
(* SpecBreaker                                                             *)
(***************************************************************************)

\* the circuit is open after at least 3 consecutive failures and fewer than
\* 30 s have passed since it opened
CircuitHeldOpen(h, t) ==
    /\ h.circuit_state = "open"
    /\ h.consecutive_failures >= FAILURE_THRESHOLD
    /\ t - h.circuit_opened_at < COOLDOWN_SECONDS

\* the complete request whose handler started with the circuit held open
OpenCompleteAnswered ==
    /\ last_resp.conn # "none"
    /\ last_resp.req.type = "complete"
    /\ CircuitHeldOpen(last_resp.pre_health, last_resp.read_at)

StaleOwn(c, key, t) ==
    {k \in DOMAIN c : /\ key # NoKey
                      /\ k = _make_key(key)
                      /\ t - c[k].timestamp > CACHE_TTL}

\* C7 as stated: a complete() that the breaker rejects makes no provider call,
\* returns "", and leaves consecutive_failures, last_failure_at,
\* circuit_opened_at, the latency samples and the cache unchanged.
C7_RejectionChangesNothing ==
    lcall.outcome = "rejected" =>
        /\ lcall.text = << >>
        /\ \A c \in BreakerConns : pc[c] # "await"
        /\ lcall.post_health = lcall.pre_health
        /\ lcall.post_cache = lcall.pre_cache

\* C7, amended: the same, except that the cache lookup made before the breaker
\* check has removed the entry of the request's own key when it was stale.
C7_RejectionChangesOnlyStaleEntry ==
    lcall.outcome = "rejected" =>
        /\ lcall.text = << >>
        /\ \A c \in BreakerConns : pc[c] # "await"
        /\ lcall.post_health = lcall.pre_health
        /\ lcall.post_cache =
              [k \in DOMAIN lcall.pre_cache
                        \ StaleOwn(lcall.pre_cache, lcall.key, lcall.at) |->
                   lcall.pre_cache[k]]

\* C7 witness: a rejected call whose own cache entry had gone stale.
C7_Witness ==
    /\ lcall.outcome = "rejected"
    /\ StaleOwn(lcall.pre_cache, lcall.key, lcall.at) # {}
    /\ lcall.pre_health.consecutive_failures = FAILURE_THRESHOLD
    /\ lcall.post_health = lcall.pre_health

(***************************************************************************)
(* Claims about the lines a connection receives, checked under Spec        *)
(***************************************************************************)

\* C11: for every received line that parses as JSON, an object or any other
\* JSON value, the server writes exactly one response line and the connection
\* stays open for the next request; no exception ends the connection.
C11_ParsedLineAnswered ==
    last_read.kind \in {"object", "non_object"} =>
        /\ pc[last_read.conn] # "closed"
        /\ pc[last_read.conn] = "read" =>
              n_written[last_read.conn] = last_read.written_before + 1

\* C12: for every received line that cannot be parsed as JSON (malformed text,
\* or bytes that do not decode), the server writes no response for the line
\* and keeps the connection open, ready to read the next request.
C12_UnparsedLineSkipped ==
    last_read.kind \in {"invalid_json", "undecodable"} =>
        /\ pc[last_read.conn] = "read"
        /\ n_written[last_read.conn] = last_read.written_before

(***************************************************************************)
(* SpecRetry: one connection whose requests go through complete (complete, *)
(* error_correct) and through complete_with_retry (nl, history_search),    *)
(* with a provider that answers with a text, with "" or with an error.     *)
(***************************************************************************)
MaxRetryReads == 2
RetryConns == {"c1"}
RetryRequests == {ReqAuto, ReqErrorCorrect, ReqNl, ReqHistorySearch}
RetryTexts == { << >>, <<"l", "s">>, <<"[", "1", "]">> }

NextRetry == DaemonStep(RetryConns, RetryRequests, RetryTexts, MaxRetryReads, {60})

SpecRetry == Init /\ [][NextRetry]_vars

(***************************************************************************)
(* Claims about the retry policy, checked under SpecRetry                  *)
(***************************************************************************)

\* the first non-empty text of a row of attempt results, "" if there is none
RECURSIVE FirstNonEmpty(_)
FirstNonEmpty(results) ==
    IF results = << >> THEN << >>
    ELSE IF Head(results) # << >> THEN Head(results)
    ELSE FirstNonEmpty(Tail(results))

\* the bounds of C13 for a handler of a request of type t that has made
\* calls provider calls and got results from complete()
AttemptsWithinPolicy(t, calls, results) ==
    /\ calls <= Len(results) + 1
    /\ t \in {"complete", "error_correct"} => calls <= 1 /\ Len(results) <= 1
    /\ t \in {"nl", "history_search"} =>
          /\ calls <= 2
          /\ Len(results) <= 2
          /\ (calls = 2 \/ Len(results) = 2) => results[1] = << >>

\* C13: handling a complete or error_correct request issues at most one
\* provider call; handling an nl or history_search request issues at most two,
\* the second only after the first attempt returned "", and the value used
\* is the first non-empty attempt result, or "" if both are empty.
C13_AttemptsBounded ==
    /\ \A c \in RetryConns :
          pc[c] \in {"await", "sleep"} =>
              AttemptsWithinPolicy(cur[c].data.type, cur[c].calls, cur[c].results)
    /\ last_resp.conn # "none" =>
          /\ AttemptsWithinPolicy(last_resp.req.type, last_resp.calls, last_resp.results)
          /\ last_resp.calls <= Len(last_resp.results)
          /\ last_resp.req.type = "nl" =>
                last_resp.resp.command = FirstNonEmpty(last_resp.results)
          /\ last_resp.req.type = "history_search" =>
                last_resp.resp = HistoryResponse(FirstNonEmpty(last_resp.results))

\* C13 witness: an nl request whose first attempt came back empty from the
\* provider and whose second attempt gave the command.
C13_Witness ==
    /\ last_resp.req.type = "nl"
    /\ last_resp.calls = 2
    /\ last_resp.results = << << >>, <<"l", "s">> >>
    /\ last_resp.resp.command = <<"l", "s">>

(***************************************************************************)
(* SpecLimiter: every sequence of allow calls on one RateLimiter, at       *)
(* non-decreasing times.  The limiter starts empty or holding the          *)
(* timestamps of RATE_LIMIT_RPM - 2 calls accepted at time 0.              *)
(***************************************************************************)
MaxLimiterTime == 62
MaxAllowCalls == 5
LimiterSteps == {30, 31}
LimiterPrefill == {0, RATE_LIMIT_RPM - 2}

LAllow ==
    LET r == allow(rate_timestamps, now)
    IN /\ rcall.n < MaxAllowCalls
       /\ rate_timestamps' = r.timestamps
       /\ rcall' = [at |-> now, ret |-> r.ret, pre |-> rate_timestamps,
                    called |-> TRUE, n |-> rcall.n + 1]
       /\ accepted' = IF r.ret THEN Append(accepted, now) ELSE accepted
       /\ UNCHANGED <<now, healthVars, cacheVars, session, config, llm_config,
                      last_activity, pc, cur, n_valid, n_written, last_resp, lcall,
                      last_sent, last_read, adds, life, latencies, arg, res, boot>>

LTick ==
    /\ \E d \in LimiterSteps : now + d <= MaxLimiterTime /\ now' = now + d
    /\ UNCHANGED <<healthVars, cacheVars, daemonVars>>

InitLimiterSpec ==
    /\ now = 0
    /\ InitHealth
    /\ InitCache
    /\ session = << >>
    /\ config = "A"
    /\ llm_config = "A"
    /\ last_activity = 0
    /\ pc = [c \in Conns |-> "read"]
    /\ cur = [c \in Conns |-> NoCur]
    /\ n_valid = [c \in Conns |-> 0]
    /\ n_written = [c \in Conns |-> 0]
    /\ last_resp = NoResponse
    /\ lcall = NoLLMCall
    /\ last_sent = NoSent
    /\ last_read = NoRead
    /\ rcall = NoAllowCall
    /\ adds = << >>
    /\ life = InitLife
    /\ arg = NoArg
    /\ res = NoRes
    /\ boot = InitBoot
    /\ latencies = << >>
    /\ \E n \in LimiterPrefill :
          /\ rate_timestamps = [i \in 1..n |-> 0]
          /\ accepted = [i \in 1..n |-> 0]

NextLimiter ==
    \/ LAllow
    \/ LTick

SpecLimiter == InitLimiterSpec /\ [][NextLimiter]_vars

(***************************************************************************)
(* Claims about the RateLimiter, checked under SpecLimiter                 *)
(***************************************************************************)

\* the calls accepted before the last allow call
AcceptedBefore ==
    IF rcall.called /\ rcall.ret THEN SubSeq(accepted, 1, Len(accepted) - 1)
    ELSE accepted

\* how many of them were accepted at most 60 s before the last call
RecentlyAccepted ==
    Cardinality({i \in 1..Len(AcceptedBefore) :
                    rcall.at - AcceptedBefore[i] <= RATE_WINDOW})

\* C14: with limit N = 60, at most N calls return true within any 60-second
\* window (any N + 1 accepted calls span more than 60 s); a call returns
\* false exactly when N calls were accepted in the 60 s up to it, so once N
\* calls were accepted every call made no later than 60 s after the oldest
\* of them is rejected; a rejected call records no timestamp; the limiter
\* never holds more than N timestamps.
C14_AtMostNPerWindow ==
    /\ Len(rate_timestamps) <= RATE_LIMIT_RPM
    /\ \A i, j \in 1..Len(accepted) :
          j - i >= RATE_LIMIT_RPM => accepted[j] - accepted[i] > RATE_WINDOW
    /\ rcall.called =>
          /\ rcall.ret = (RecentlyAccepted < RATE_LIMIT_RPM)
          /\ ~ rcall.ret =>
                /\ Len(rate_timestamps) <= Len(rcall.pre)
                /\ rate_timestamps =
                      SubSeq(rcall.pre, Len(rcall.pre) - Len(rate_timestamps) + 1,
                             Len(rcall.pre))

\* C14 witness: the limit was reached at time 0, a call exactly 60 s later was
\* rejected, and the call after that, 61 s after the oldest, is accepted.
C14_Witness ==
    /\ rcall.called
    /\ rcall.ret
    /\ rcall.at = RATE_WINDOW + 1
    /\ Len(rcall.pre) = RATE_LIMIT_RPM
    /\ rcall.pre[1] = 0
    /\ Len(accepted) = RATE_LIMIT_RPM + 1

(***************************************************************************)
(* SpecRate: the daemon one accepted request short of its rate limit: the  *)
(* limiter holds the timestamps of RATE_LIMIT_RPM - 1 complete requests    *)
(* accepted at time 0.                                                     *)
(***************************************************************************)
MaxRateReads == 2
RateConns == {"c1"}
RateTimes == {RATE_WINDOW + 1}

InitRate ==
    /\ now = 0
    /\ InitHealth
    /\ InitCache
    /\ rate_timestamps = [i \in 1..(RATE_LIMIT_RPM - 1) |-> 0]
    /\ session = << >>
    /\ config = "A"
    /\ llm_config = "A"
    /\ last_activity = 0
    /\ pc = [c \in Conns |-> "read"]
    /\ cur = [c \in Conns |-> NoCur]
    /\ n_valid = [c \in Conns |-> 0]
    /\ n_written = [c \in Conns |-> 0]
    /\ last_resp = NoResponse
    /\ lcall = NoLLMCall
    /\ last_sent = NoSent
    /\ last_read = NoRead
    /\ rcall = NoAllowCall
    /\ accepted = << >>
    /\ adds = << >>
    /\ life = InitLife
    /\ arg = NoArg
    /\ res = NoRes
    /\ boot = InitBoot
    /\ latencies = << >>

NextRate == DaemonStep(RateConns, Requests, ProviderTexts, MaxRateReads, RateTimes)

SpecRate == InitRate /\ [][NextRate]_vars

(***************************************************************************)
(* Claims about the dispatcher's use of the limiter, checked under         *)
(* SpecRate                                                                *)
(***************************************************************************)

\* in a step that reads a request: the connection that read it
ReaderOfStep == CHOOSE c \in Conns : n_valid'[c] # n_valid[c]

\* in a step that reads a request: the request
RequestOfStep ==
    IF pc'[ReaderOfStep] = "read" THEN last_resp'.req ELSE cur'[ReaderOfStep].data

C15_Step ==
    /\ n_valid' = n_valid => rate_timestamps' = rate_timestamps
    /\ n_valid' # n_valid =>
          /\ RequestOfStep.type # "complete" => rate_timestamps' = rate_timestamps
          /\ (RequestOfStep.type = "complete" /\ ~ allow(rate_timestamps, now).ret) =>
                /\ pc'[ReaderOfStep] = "read"
                /\ last_resp'.resp.suggestion = << >>
                /\ last_resp'.calls = 0
                /\ lcall' = lcall
                /\ last_sent' = last_sent
                /\ cache' = cache
                /\ session' = session
                /\ health' = health

\* C15: only complete requests consult the rate limiter: no step that handles
\* an nl, error_correct, history_search or reload_config request (or that
\* continues a handler) changes the limiter, and a complete request that the
\* limiter rejects is answered suggestion "" in the same step with no call of
\* complete() (so no cache lookup and no provider call) and no change to the
\* cache, the session buffer or the ConnectionHealth.
C15_OnlyCompleteRateLimited == [][C15_Step]_vars

\* C15 witness: an autocomplete request was answered without reaching
\* complete() while the limiter is full.
C15_Witness ==
    /\ last_resp.conn # "none"
    /\ last_resp.req.type = "complete"
    /\ last_resp.req.buffer # << >>
    /\ last_resp.first = "none"
    /\ last_resp.resp.suggestion = << >>
    /\ Len(rate_timestamps) = RATE_LIMIT_RPM

(***************************************************************************)
(* SpecLatency: one connection sending autocomplete, proactive and nl      *)
(* requests to a daemon whose client has recorded 9 successes of 2000 ms;  *)
(* the provider answers after 0, 3 or 6 s.                                 *)
(***************************************************************************)
MaxLatencyReads == 3
LatencyPrefill == MAX_LATENCY_SAMPLES - 1
LatencyConns == {"c1"}
LatencyRequests == {ReqAuto, ReqProactive, ReqNl}
LatencyTexts == { <<"l", "s">> }
LatencyTimes == {3, 6}

InitLatency ==
    /\ now = 0
    /\ health = [ConnectionHealth EXCEPT
                    !.latency_samples = [i \in 1..LatencyPrefill |-> HIGH_LATENCY_MS]]
    /\ hcall = NoCall
    /\ hist = << >>
    /\ probe_failed_at = -1
    /\ InitCache
    /\ rate_timestamps = << >>
    /\ session = << >>
    /\ config = "A"
    /\ llm_config = "A"
    /\ last_activity = 0
    /\ pc = [c \in Conns |-> "read"]
    /\ cur = [c \in Conns |-> NoCur]
    /\ n_valid = [c \in Conns |-> 0]
    /\ n_written = [c \in Conns |-> 0]
    /\ last_resp = NoResponse
    /\ lcall = NoLLMCall
    /\ last_sent = NoSent
    /\ last_read = NoRead
    /\ rcall = NoAllowCall
    /\ accepted = << >>
    /\ adds = << >>
    /\ life = InitLife
    /\ arg = NoArg
    /\ res = NoRes
    /\ boot = InitBoot
    /\ latencies = [i \in 1..LatencyPrefill |-> HIGH_LATENCY_MS]

NextLatency ==
    DaemonStep(LatencyConns, LatencyRequests, LatencyTexts, MaxLatencyReads, LatencyTimes)

SpecLatency == InitLatency /\ [][NextLatency]_vars

(***************************************************************************)
(* Claims about the latency tracker, checked under SpecLatency             *)
(***************************************************************************)

\* the mean of the last at most 10 of the latencies xs exceeds 2000 ms
MeanOfRecentHigh(xs) ==
    LET recent == LastN(xs, MAX_LATENCY_SAMPLES)
    IN /\ recent # << >>
       /\ SumSeq(recent) > HIGH_LATENCY_MS * Len(recent)

\* the request just answered is a complete request that was read while
\* is_high_latency held
AnsweredUnderHighLatency ==
    /\ last_resp.conn # "none"
    /\ last_resp.req.type = "complete"
    /\ is_high_latency(last_resp.pre_health)

\* is_high_latency holds exactly when the mean of the most recent at most 10
\* recorded success latencies exceeds 2000 ms, and a proactive request read
\* while it holds returns suggestion "" with no provider call
HighLatencyAndProactive ==
    /\ health.latency_samples = LastN(latencies, MAX_LATENCY_SAMPLES)
    /\ is_high_latency(health) = MeanOfRecentHigh(latencies)
    /\ (AnsweredUnderHighLatency /\ last_resp.req.buffer = << >>
            /\ last_resp.req.last_output # << >>) =>
          /\ last_resp.resp.suggestion = << >>
          /\ last_resp.calls = 0
          /\ last_resp.first = "none"

\* C16 as stated: is_high_latency is the mean test, a proactive request under
\* high latency returns "" with no provider call, and an autocomplete request
\* under high latency is still sent to the provider.
C16_HighLatencySkipsProactive ==
    /\ HighLatencyAndProactive
    /\ (AnsweredUnderHighLatency /\ last_resp.req.buffer # << >>) =>
          last_resp.calls > 0

\* C16, amended: the same, except that the autocomplete request is passed to
\* LLMClient.complete as at any other time, which sends it to the provider
\* unless it finds the answer in the cache or the breaker rejects it.
C16_HighLatencySkipsProactiveOnly ==
    /\ HighLatencyAndProactive
    /\ (AnsweredUnderHighLatency /\ last_resp.req.buffer # << >>) =>
          /\ last_resp.first \in {"cached", "rejected", "send"}
          /\ last_resp.first = "send" => last_resp.calls = 1
          /\ last_resp.first # "send" => last_resp.calls = 0

\* C16 witness: the 10th and 11th successes made the mean of the last 10
\* exceed 2000 ms, and a proactive request was then answered with "".
C16_Witness ==
    /\ Len(latencies) > MAX_LATENCY_SAMPLES
    /\ is_high_latency(health)
    /\ AnsweredUnderHighLatency
    /\ last_resp.req = ReqProactive
    /\ last_resp.resp.suggestion = << >>
    /\ last_resp.calls = 0

(***************************************************************************)
(* SpecSession: every sequence of SessionBuffer.add calls on a buffer that *)
(* already holds 19 entries, with outputs of 0 to 22 lines.                *)
(***************************************************************************)
MaxSessionAdds == 22
SessionPrefill == MAX_ENTRIES - 1
SessionCommands == { <<"l", "s">>, <<"c", "d">> }

\* n lines "a", "b", "a", ...
LinesAB(n) == [i \in 1..n |-> IF i % 2 = 1 THEN <<"a">> ELSE <<"b">>]

\* an output as its lines, and whether its last line ends with a newline
SessionOutputs ==
    { [lines |-> << >>, terminated |-> FALSE],
      [lines |-> << <<"a">> >>, terminated |-> FALSE],
      [lines |-> << <<"a">>, << >>, <<"b">> >>, terminated |-> TRUE],
      [lines |-> LinesAB(MAX_OUTPUT_LINES + 1), terminated |-> FALSE],
      [lines |-> LinesAB(MAX_OUTPUT_LINES + 2), terminated |-> TRUE] }

\* the str handed to add
OutputText(o) == JoinLines(o.lines) \o (IF o.terminated THEN <<"\n">> ELSE << >>)

SAdd ==
    \E c \in SessionCommands, o \in SessionOutputs :
       /\ Len(adds) < MaxSessionAdds
       /\ session' = SessionAdd(session, c, OutputText(o))
       /\ adds' = Append(adds, [command |-> c, lines |-> o.lines])
       /\ UNCHANGED <<now, healthVars, cacheVars, rate_timestamps, config, llm_config,
                      last_activity, pc, cur, n_valid, n_written, last_resp, lcall,
                      last_sent, last_read, rcall, accepted, life, latencies, arg, res, boot>>

\* the commands of the entries already in the buffer: "p", "q", "p", ...
PrefillCommand(i) == IF i % 2 = 1 THEN <<"p">> ELSE <<"q">>

InitSession ==
    /\ now = 0
    /\ InitHealth
    /\ InitCache
    /\ rate_timestamps = << >>
    /\ config = "A"
    /\ llm_config = "A"
    /\ last_activity = 0
    /\ pc = [c \in Conns |-> "read"]
    /\ cur = [c \in Conns |-> NoCur]
    /\ n_valid = [c \in Conns |-> 0]
    /\ n_written = [c \in Conns |-> 0]
    /\ last_resp = NoResponse
    /\ lcall = NoLLMCall
    /\ last_sent = NoSent
    /\ last_read = NoRead
    /\ rcall = NoAllowCall
    /\ accepted = << >>
    /\ life = InitLife
    /\ arg = NoArg
    /\ res = NoRes
    /\ boot = InitBoot
    /\ latencies = << >>
    /\ session = [i \in 1..SessionPrefill |->
                     [command |-> PrefillCommand(i), output |-> <<"a">>]]
    /\ adds = [i \in 1..SessionPrefill |->
                  [command |-> PrefillCommand(i), lines |-> << <<"a">> >>]]

NextSession == SAdd

SpecSession == InitSession /\ [][NextSession]_vars

\* the last at most n elements of q, in order
MostRecent(q, n) ==
    LET m == IF Len(q) < n THEN Len(q) ELSE n
    IN [j \in 1..m |-> q[Len(q) - m + j]]

\* C17: after N add calls the buffer holds exactly the most recent min(N, 20)
\* entries in insertion order, and each stored output consists of the last at
\* most 20 lines of the output given to add.
C17_MostRecentEntries ==
    LET given == MostRecent(adds, 20)
    IN /\ Len(session) = Len(given)
       /\ \A i \in 1..Len(given) :
             /\ session[i].command = given[i].command
             /\ session[i].output = JoinLines(MostRecent(given[i].lines, 20))

\* C17 witness: more than 20 adds were made, the oldest entries are gone, and
\* the newest entry was given more than 20 lines.
C17_Witness ==
    /\ Len(adds) > MAX_ENTRIES + 1
    /\ Len(adds[Len(adds)].lines) > MAX_OUTPUT_LINES
    /\ Len(splitlines(session[Len(session)].output)) = MAX_OUTPUT_LINES
    /\ Len(session) = MAX_ENTRIES

(***************************************************************************)
(* SpecBuffer: one connection sending every kind of request, among them a  *)
(* proactive request whose last_output ends with a newline.                *)
(***************************************************************************)
MaxBufferReads == 2
BufferConns == {"c1"}
BufferRequests == Requests \cup {ReqProactiveNewline}
BufferTexts == { << >>, <<"l", "s">> }

NextBuffer == DaemonStep(BufferConns, BufferRequests, BufferTexts, MaxBufferReads, {60})

SpecBuffer == Init /\ [][NextBuffer]_vars

\* the request read in this step is a proactive complete request
ProactiveStep ==
    /\ n_valid' # n_valid
    /\ RequestOfStep.type = "complete"
    /\ RequestOfStep.buffer = << >>
    /\ RequestOfStep.last_output # << >>

\* the session buffer after this step is the one before it with one more
\* entry, of the given command and output
AppendsEntry(command, output) ==
    session' = MostRecent(Append(session, [command |-> command, output |-> output]),
                          MAX_ENTRIES)

C18_StepAsStated ==
    session' # session =>
       /\ ProactiveStep
       /\ \E data \in {RequestOfStep} :
             AppendsEntry(data.last_command, sanitize_output(data.last_output))

\* C18 as stated: the session buffer changes only in a step that reads a
\* proactive complete request, and then by one appended entry whose output is
\* the redacted last_output.
C18_OnlyProactiveAppendsRedacted == [][C18_StepAsStated]_vars

C18_Step ==
    session' # session =>
       /\ ProactiveStep
       /\ \E data \in {RequestOfStep} :
          \E redacted \in {sanitize_output(data.last_output)} :
             AppendsEntry(data.last_command,
                          JoinLines(MostRecent(splitlines(redacted), MAX_OUTPUT_LINES)))

\* C18, amended: the session buffer changes only in a step that reads a
\* proactive complete request (no autocomplete, nl, error_correct,
\* history_search, reload_config or unknown-type request and no continuation
\* of a handler changes it), and then by one appended entry whose output is
\* the last at most 20 lines of the redacted last_output joined by newlines,
\* so without a final newline.
C18_OnlyProactiveAppendsRedactedLines == [][C18_Step]_vars

\* C18 witness: a proactive request whose output ended with a newline was
\* recorded without it, and an nl request was answered after it, leaving the
\* one entry.
C18_Witness ==
    /\ session = << [command |-> ReqProactiveNewline.last_command, output |-> <<"o", "k">>] >>
    /\ last_resp.conn # "none"
    /\ last_resp.req.type = "nl"
    /\ last_resp.seq = 2

\* C19: every provider call of a request uses configuration values (provider
\* name, base URL, API key, model) of one single configuration snapshot, also
\* when a reload_config of another connection was processed while the
\* request was awaiting the provider or sleeping between attempts.
C19_OneConfigSnapshot ==
    last_sent.conn # "none" => last_sent.model_from = last_sent.provider_from

\* AishDaemon.IDLE_TIMEOUT_SECONDS, 30 * 60 seconds
IDLE_TIMEOUT_SECONDS == 1800
\* the asyncio.sleep(60) of start's loop
CHECK_INTERVAL == 60

(***************************************************************************)
(* SpecIdle: start's loop measured on the clock: one connection sends      *)
(* requests that are answered at once (an unknown type, reload_config) at  *)
(* any moment while the 60 s sleeps of the loop pass.                      *)
(***************************************************************************)
MaxIdleTime == 1980
MaxIdleReads == 2
IdleConns == {"c1"}
IdleRequests == {ReqUnknown, ReqReload}

\* idle >= self.IDLE_TIMEOUT_SECONDS, with the comparison of a loop that
\* needs more than the timeout
IdleExpired_late(idle) == idle > IDLE_TIMEOUT_SECONDS

\* idle >= self.IDLE_TIMEOUT_SECONDS
IdleExpired(idle) == idle >= IDLE_TIMEOUT_SECONDS

\* start's loop: asyncio.sleep(60) is over, idle is computed from
\* _last_activity; at the timeout the loop is left and stop() closes the
\* server
IdleCheck ==
    LET idle == (now + CHECK_INTERVAL) - last_activity
    IN /\ life.main = "sleeping"
       /\ now + CHECK_INTERVAL <= MaxIdleTime
       /\ now' = now + CHECK_INTERVAL
       /\ life' = IF IdleExpired(idle)
                  THEN [life EXCEPT !.idle = idle, !.accepting = FALSE,
                                    !.main = "wait_closed"]
                  ELSE [life EXCEPT !.idle = idle]
       /\ UNCHANGED <<healthVars, cacheVars, rate_timestamps, session, config,
                      llm_config, last_activity, pc, cur, n_valid, n_written,
                      last_resp, lcall, last_sent, last_read, rcall, accepted,
                      adds, latencies, arg, res, boot>>

NextIdle ==
    \/ \E c \in IdleConns, data \in IdleRequests : ReadRequest(c, data, MaxIdleReads)
    \/ IdleCheck

\* Time passes: every sleep of the loop ends.
SpecIdle == Init /\ [][NextIdle]_vars /\ WF_vars(IdleCheck)

\* the moment the last request was handed to handle_request on the one
\* connection in use, or the start when there was none
LastHandledAt ==
    IF pc["c1"] \in {"await", "sleep"} THEN cur["c1"].read_at
    ELSE IF last_resp.conn # "none" THEN last_resp.read_at
    ELSE 0

C21_Step ==
    /\ (now' # now) =>
          ((life'.main # "sleeping") <=> (now' - LastHandledAt >= 30 * 60))
    /\ (now' = now) => (life'.main = life.main)

ServerClosed ==
    \/ ~ life.waits_for_connections
    \/ \A c \in Conns : pc[c] = "closed"

lifeFrame ==
    <<now, healthVars, cacheVars, rate_timestamps, session, config, llm_config,
      last_activity, cur, n_valid, n_written, last_resp, lcall, last_sent,
      last_read, rcall, accepted, adds, latencies, arg, res, boot>>

\* SIGTERM or SIGINT: the handler creates a task running stop()
LSignal ==
    /\ ~ life.exited
    /\ ~ life.signalled
    /\ life' = [life EXCEPT !.signalled = TRUE, !.stop_task = "close"]
    /\ UNCHANGED <<pc, lifeFrame>>

\* the task running stop(): server.close(), then after wait_closed the pool
\* is closed and the socket and the PID file are unlinked
LStopTask ==
    /\ ~ life.exited
    /\ \/ /\ life.stop_task = "close"
          /\ life' = [life EXCEPT !.accepting = FALSE, !.stop_task = "wait_closed"]
       \/ /\ life.stop_task = "wait_closed"
          /\ ServerClosed
          /\ life' = [life EXCEPT !.pool_open = FALSE, !.socket_file = FALSE,
                                  !.pid_file = FALSE, !.stop_task = "done"]
    /\ UNCHANGED <<pc, lifeFrame>>

\* start's loop: a sleep of 60 s ends; at the idle timeout the loop is left
\* and stop() closes the server
LMainWake ==
    LET idle == IF life.idle + CHECK_INTERVAL > IDLE_TIMEOUT_SECONDS
                THEN IDLE_TIMEOUT_SECONDS
                ELSE life.idle + CHECK_INTERVAL
    IN /\ ~ life.exited
       /\ life.main = "sleeping"
       /\ life' = IF idle >= IDLE_TIMEOUT_SECONDS
                  THEN [life EXCEPT !.idle = idle, !.accepting = FALSE,
                                    !.main = "wait_closed"]
                  ELSE [life EXCEPT !.idle = idle]
       /\ UNCHANGED <<pc, lifeFrame>>

\* stop() called by start after wait_closed: the pool is closed, the files
\* are unlinked, start and _run return and the process ends
LMainStop ==
    /\ ~ life.exited
    /\ life.main = "wait_closed"
    /\ ServerClosed
    /\ life' = [life EXCEPT !.pool_open = FALSE, !.socket_file = FALSE,
                            !.pid_file = FALSE, !.main = "returned",
                            !.exited = TRUE]
    /\ pc' = [c \in Conns |-> "closed"]
    /\ UNCHANGED lifeFrame

\* a client sends a request on an open connection: handle_request sets
\* _last_activity
LRequest(c) ==
    /\ ~ life.exited
    /\ pc[c] = "read"
    /\ life' = [life EXCEPT !.idle = 0]
    /\ UNCHANGED <<pc, lifeFrame>>

\* a client closes its connection
LClose(c) ==
    /\ ~ life.exited
    /\ pc[c] = "read"
    /\ pc' = [pc EXCEPT ![c] = "closed"]
    /\ UNCHANGED <<life, lifeFrame>>

InitLifeSpec ==
    /\ now = 0
    /\ InitHealth
    /\ InitCache
    /\ rate_timestamps = << >>
    /\ session = << >>
    /\ config = "A"
    /\ llm_config = "A"
    /\ last_activity = 0
    /\ pc = [c \in Conns |-> "read"]
    /\ cur = [c \in Conns |-> NoCur]
    /\ n_valid = [c \in Conns |-> 0]
    /\ n_written = [c \in Conns |-> 0]
    /\ last_resp = NoResponse
    /\ lcall = NoLLMCall
    /\ last_sent = NoSent
    /\ last_read = NoRead
    /\ rcall = NoAllowCall
    /\ accepted = << >>
    /\ adds = << >>
    /\ latencies = << >>
    /\ \E w \in BOOLEAN : life = [InitLife EXCEPT !.waits_for_connections = w]
    /\ arg = NoArg
    /\ res = NoRes
    /\ boot = InitBoot

NextLife ==
    \/ LSignal
    \/ LStopTask
    \/ LMainWake
    \/ LMainStop
    \/ \E c \in Conns : LRequest(c)
    \/ \E c \in Conns : LClose(c)

SpecLife == InitLifeSpec /\ [][NextLife]_vars

\* The event loop runs every task that can run; nothing obliges a client to
\* send, to stop sending or to close.
SpecLifeFair ==
    /\ SpecLife
    /\ WF_vars(LStopTask)
    /\ WF_vars(LMainWake)
    /\ WF_vars(LMainStop)

\* C20: after SIGTERM or SIGINT is delivered the daemon stops accepting
\* connections, unlinks the socket and the PID file, and the process
\* eventually terminates, whatever clients do on the open connections.
C20_SignalLeadsToExit ==
    life.signalled ~> (/\ ~ life.accepting
                       /\ ~ life.socket_file
                       /\ ~ life.pid_file
                       /\ life.exited)

(***************************************************************************)
(* SpecPost: one request of each kind that is answered from a provider     *)
(* text, and provider texts with operators, code fences, several lines and *)
(* dangerous commands.  The provider adapter strips the content it         *)
(* returns, so every text is its own strip().                              *)
(***************************************************************************)
MaxPostReads == 1
PostConns == {"c1"}

\* autocomplete requests whose buffer ends with a space, with a character
\* that is neither a word character nor a space, and with the word rm
ReqAutoSpace == [BaseRequest EXCEPT !.buffer = <<"l", "s", " ">>]
ReqAutoSlash == [BaseRequest EXCEPT !.buffer = <<".", "/">>]
ReqAutoRm == [BaseRequest EXCEPT !.buffer = <<"r", "m">>]

PostRequests == {ReqAuto, ReqAutoSpace, ReqAutoSlash, ReqAutoRm, ReqProactive,
                 ReqNl, ReqErrorCorrect}

PostTexts ==
    { << >>,
      <<"l", "s">>,
      <<"-", "i">>,
      <<"|", " ", "l", "s">>,
      <<"l", "s", "\n", "r", "m">>,
      <<"-", "i", " ", "\n", "o">>,
      Fence \o <<"\n", "l", "s", "\n">> \o Fence,
      Fence \o <<"s", "\n", "-", "i", "\n", "l", "s", "\n">> \o Fence,
      <<"-", "r", "f", " ", "/">>,
      <<"r", "m", " ", "-", "r", "f", " ", "/">>,
      <<"r", "m", " ", "-", "r", "f", " ", "/", "\n", "l", "s">> }

NextPost == DaemonStep(PostConns, PostRequests, PostTexts, MaxPostReads, {60})

SpecPost == Init /\ [][NextPost]_vars

\* the text field of a complete, nl or error_correct response
TextField(resp) == IF resp.type = "nl" THEN resp.command ELSE resp.suggestion

\* a complete, nl or error_correct response was written
TextAnswered ==
    /\ last_resp.conn # "none"
    /\ last_resp.resp.type \in {"complete", "nl", "error_correct"}

\* C22: for every response of kind complete, nl or error_correct and every
\* text the provider may return, the response text field (suggestion or
\* command) contains no newline character.
C22_NoNewlineInText ==
    TextAnswered => ~ HasNewline(TextField(last_resp.resp))

(***************************************************************************)
(* Specifications of single functions: Init draws the arguments, the one   *)
(* action applies the function.  pureFrame is everything else.             *)
(***************************************************************************)
pureFrame ==
    <<now, healthVars, cacheVars, rate_timestamps, session, config, llm_config,
      last_activity, pc, cur, n_valid, n_written, last_resp, lcall, last_sent,
      last_read, rcall, accepted, adds, life, latencies, boot>>

InitPure ==
    /\ now = 0
    /\ InitHealth
    /\ InitCache
    /\ rate_timestamps = << >>
    /\ session = << >>
    /\ config = "A"
    /\ llm_config = "A"
    /\ last_activity = 0
    /\ pc = [c \in Conns |-> "read"]
    /\ cur = [c \in Conns |-> NoCur]
    /\ n_valid = [c \in Conns |-> 0]
    /\ n_written = [c \in Conns |-> 0]
    /\ last_resp = NoResponse
    /\ lcall = NoLLMCall
    /\ last_sent = NoSent
    /\ last_read = NoRead
    /\ rcall = NoAllowCall
    /\ accepted = << >>
    /\ adds = << >>
    /\ life = InitLife
    /\ latencies = << >>
    /\ res = NoRes
    /\ boot = InitBoot

(***************************************************************************)
(* SpecSpace: _ensure_leading_space on buffers ending in every kind of     *)
(* character and suggestions starting with every kind of character.        *)
(***************************************************************************)
SpaceBuffers ==
    { << >>, <<"a">>, <<"l", "s">>, <<"1">>, <<"_">>, <<"-">>, <<" ">>, <<"l", " ">>,
      <<"\t">>, <<"/">>, <<".", "/">>, <<")">>, <<"|">>, <<"'">> }
SpaceSuggestions ==
    { << >>, <<"a">>, <<" ">>, <<" ", "-", "i">>, <<"/">> }
        \cup { <<ch>> : ch \in OperatorStart }
        \cup { <<ch, "x">> : ch \in OperatorStart }

ApplySpace ==
    /\ arg.fn = "_ensure_leading_space"
    /\ ~ res.done
    /\ res' = [done |-> TRUE, value |-> _ensure_leading_space(arg.buffer, arg.suggestion)]
    /\ UNCHANGED <<arg, pureFrame>>

InitSpace ==
    /\ InitPure
    /\ \E b \in SpaceBuffers, s \in SpaceSuggestions :
          arg = [fn |-> "_ensure_leading_space", buffer |-> b, suggestion |-> s]

NextSpace == ApplySpace

SpecSpace == InitSpace /\ [][NextSpace]_vars

\* alphanumeric, for the characters of the model
isalnum(ch) == ch \in Letters \cup Digits

\* C23: a single space is prepended to the suggestion exactly when the
\* buffer is non-empty, its last character is alphanumeric or _ or -, and
\* the first character of the suggestion is one of - | > & ; < ( ); in every
\* other case the suggestion is returned as it is.
C23_SpaceAfterWordOnly ==
    res.done =>
       res.value =
          IF /\ arg.buffer # << >>
             /\ arg.suggestion # << >>
             /\ (isalnum(arg.buffer[Len(arg.buffer)])
                    \/ arg.buffer[Len(arg.buffer)] \in {"_", "-"})
             /\ arg.suggestion[1] \in {"-", "|", ">", "&", ";", "<", "(", ")"}
          THEN <<" ">> \o arg.suggestion
          ELSE arg.suggestion

(***************************************************************************)
(* SpecWarn: the daemon one accepted request short of its rate limit,      *)
(* autocomplete requests whose buffer is the start of, or is, a dangerous  *)
(* command, nl requests, and provider texts that are or complete one.      *)
(***************************************************************************)
MaxWarnReads == 2
WarnConns == {"c1"}
ReqAutoDanger ==
    [BaseRequest EXCEPT !.buffer = <<"r", "m", " ", "-", "r", "f", " ", "/">>]
WarnRequests == {ReqAuto, ReqAutoRm, ReqAutoDanger, ReqNl}
WarnTexts ==
    { << >>,
      <<"l", "s">>,
      <<"-", "r", "f", " ", "/">>,
      <<"r", "m", " ", "-", "r", "f", " ", "/">>,
      <<"r", "m", " ", "-", "r", "f", " ", "/", "\n", "l", "s">>,
      <<"l", "s", "\n", "r", "m", " ", "-", "r", "f", " ", "/">> }

NextWarn == DaemonStep(WarnConns, WarnRequests, WarnTexts, MaxWarnReads, RateTimes)

SpecWarn == InitRate /\ [][NextWarn]_vars

HasWarning(resp) == "warning" \in DOMAIN resp

\* what complete() or complete_with_retry() returned to the handler of the
\* request just answered, "" when it was not called
ReturnedText ==
    IF last_resp.results = << >> THEN << >>
    ELSE last_resp.results[Len(last_resp.results)]

\* an nl response carries a warning exactly when check_dangerous matches the
\* command, and the command is the text the client returned
NlWarned ==
    (last_resp.conn # "none" /\ last_resp.resp.type = "nl") =>
       /\ HasWarning(last_resp.resp)
             <=> (check_dangerous(last_resp.resp.command) # NoWarning)
       /\ last_resp.resp.command = ReturnedText

\* a complete response carries a warning exactly when check_dangerous
\* matches buffer + suggestion, and the suggestion is the post-processed text
CompleteWarned ==
    LET r == last_resp.req
    IN /\ HasWarning(last_resp.resp)
             <=> (check_dangerous(r.buffer \o last_resp.resp.suggestion) # NoWarning)
       /\ last_resp.resp.suggestion =
             PostProcess(IF r.buffer = << >> THEN ReturnedText
                         ELSE _ensure_leading_space(r.buffer, ReturnedText))

\* C24 as stated: every complete response carries a warning exactly when
\* check_dangerous matches buffer + final suggestion, every nl response
\* exactly when it matches the command, and the text returned is the same
\* with or without a warning.
C24_WarningIffDangerous ==
    /\ NlWarned
    /\ (last_resp.conn # "none" /\ last_resp.resp.type = "complete") => CompleteWarned

\* C24, amended: the same for every complete response except the one of a
\* request that the rate limiter rejected, which carries suggestion "" and
\* never a warning, whatever the buffer.
C24_WarningIffDangerousUnlessRejected ==
    /\ NlWarned
    /\ (last_resp.conn # "none" /\ last_resp.resp.type = "complete") =>
          IF last_resp.first = "none"
          THEN ~ HasWarning(last_resp.resp) /\ last_resp.resp.suggestion = << >>
          ELSE CompleteWarned

\* C24 witness: buffer "rm" and the provider text "-rf /" give the suggestion
\* " -rf /" with a warning that neither part would get alone.
C24_Witness ==
    /\ last_resp.conn # "none"
    /\ last_resp.req = ReqAutoRm
    /\ last_resp.resp.suggestion = <<" ", "-", "r", "f", " ", "/">>
    /\ HasWarning(last_resp.resp)
    /\ check_dangerous(last_resp.req.buffer) = NoWarning
    /\ check_dangerous(last_resp.resp.suggestion) = NoWarning

(***************************************************************************)
(* SpecRedact: one request of each kind that reaches the provider, with    *)
(* Slack tokens in its history, commands and outputs.                      *)
(***************************************************************************)
MaxRedactReads == 1
RedactConns == {"c1"}

\* seven history lines, with a token in the first, in the fourth and in the
\* last
SecretHistory ==
    << <<"x", "o", "x", "b", "-", "0">>,
       <<"l", "s">>,
       <<"r", "m">>,
       <<"a", " ", "x", "o", "x", "p", "-", "2", " ", "b">>,
       <<"l", "s">>,
       <<"g", "o">>,
       <<"x", "o", "x", "b", "-", "1", "-", "a">> >>
SecretCommand == <<"g", "o", " ", "x", "o", "x", "b", "-", "1">>

ReqAutoSecret == [ReqAuto EXCEPT !.history = SecretHistory]
ReqProactiveSecret ==
    [ReqProactive EXCEPT !.history = SecretHistory, !.last_command = SecretCommand]
ReqNlSecret == [ReqNl EXCEPT !.history = SecretHistory]
ReqErrorSecret == [ReqErrorCorrect EXCEPT !.failed_command = SecretCommand]
ReqHistorySecret == [ReqHistorySearch EXCEPT !.history = SecretHistory]

RedactRequests ==
    {ReqAutoSecret, ReqProactiveSecret, ReqNlSecret, ReqErrorSecret, ReqHistorySecret}
RedactTexts == { << >>, <<"l", "s">> }

NextRedact == DaemonStep(RedactConns, RedactRequests, RedactTexts, MaxRedactReads, {60})

SpecRedact == Init /\ [][NextRedact]_vars

\* the request on the one connection in use is at the provider: last_sent
\* holds the messages sent for it
AtProvider == pc["c1"] = "await" /\ last_sent.conn = "c1"

\* every history line of the messages is the redacted form of the line of
\* the request at the same place from the end
HistoryRedacted(m, d) ==
    "history" \in DOMAIN m =>
       /\ Len(m.history) <= Len(d.history)
       /\ \A i \in 1..Len(m.history) :
             m.history[i] =
                sanitize_text(d.history[Len(d.history) - Len(m.history) + i])

\* stderr and last_output are in the messages in redacted form, last_output
\* also where the session text holds it
OutputsRedacted(m, d) ==
    /\ m.kind = "error_correct" => m.stderr = sanitize_text(d.stderr)
    /\ m.kind = "proactive" =>
          /\ m.last_output = sanitize_text(d.last_output)
          /\ m.session # << >>
          /\ m.session[Len(m.session)].output =
                JoinLines(MostRecent(splitlines(sanitize_text(d.last_output)),
                                     MAX_OUTPUT_LINES))

\* C25: each history element, the stderr of error_correct and the
\* last_output of a proactive complete are in the messages sent to the
\* provider only as redact(value), each element redacted on its own.
C25_OutputsAndHistoryRedacted ==
    AtProvider =>
       /\ HistoryRedacted(last_sent.messages, cur["c1"].data)
       /\ OutputsRedacted(last_sent.messages, cur["c1"].data)

\* C25 witness: a proactive request is at the provider with the placeholder
\* where its last_output and its history held tokens.
C25_Witness ==
    /\ AtProvider
    /\ last_sent.messages.kind = "proactive"
    /\ last_sent.messages.last_output = Redacted \o <<"\n", "o">>
    /\ last_sent.messages.history =
          << <<"r", "m">>, <<"a", " ">> \o Redacted \o <<" ", "b">>,
             <<"l", "s">>, <<"g", "o">>, Redacted >>

\* the commands of the request are in the messages in redacted form, the
\* last command also where the session text holds it
CommandsRedacted(m, d) ==
    /\ m.kind = "error_correct" => m.failed_command = sanitize_text(d.failed_command)
    /\ m.kind = "proactive" =>
          /\ m.last_command = sanitize_text(d.last_command)
          /\ \A i \in 1..Len(m.session) :
                m.session[i].command = sanitize_text(m.session[i].command)

\* C26: no client-supplied command or output text (history elements,
\* last_command, failed_command, last_output, stderr) reaches a provider
\* message or the session buffer without having passed through redact, so
\* that requests differing only in secrets give the same messages.
C26_CommandsAndOutputsRedacted ==
    /\ AtProvider =>
          /\ HistoryRedacted(last_sent.messages, cur["c1"].data)
          /\ OutputsRedacted(last_sent.messages, cur["c1"].data)
          /\ CommandsRedacted(last_sent.messages, cur["c1"].data)
    /\ \A i \in 1..Len(session) :
          /\ session[i].command = sanitize_text(session[i].command)
          /\ session[i].output = sanitize_text(session[i].output)


(***************************************************************************)
(* safety.py: sanitize_text applied to its own result                      *)
(***************************************************************************)
MaxPieces == 3

\* the pieces the texts are put together from: the prefixes of the patterns
\* of the model, the separators and quotes of the password pattern, token
\* characters, a space, and the placeholder itself
RedactPieces ==
    { <<"x", "o", "x", "b", "-">>, <<"x", "o", "x", "p", "-">>, Password,
      <<"p", "a", "s", "s", "w", "o", "R", "D">>,
      <<":">>, <<"=">>, <<" ">>, <<"'">>, <<"1">>, <<"-">>, Redacted }

RECURSIVE Flatten(_)
Flatten(pieces) ==
    IF pieces = << >> THEN << >> ELSE Head(pieces) \o Flatten(Tail(pieces))

RedactTexts27 ==
    { Flatten(ps) : ps \in UNION { [1..n -> RedactPieces] : n \in 1..MaxPieces } }

InitSanitize ==
    /\ InitPure
    /\ \E t \in RedactTexts27 : arg = [fn |-> "sanitize_text", text |-> t]

\* sanitize_text(text), and sanitize_text of what it returned
ApplySanitize ==
    /\ arg.fn = "sanitize_text"
    /\ ~ res.done
    /\ \E once \in {sanitize_text(arg.text)} :
          res' = [done |-> TRUE, value |-> once, again |-> sanitize_text(once)]
    /\ UNCHANGED <<arg, pureFrame>>

NextSanitize == ApplySanitize

SpecSanitize == InitSanitize /\ [][NextSanitize]_vars

\* C27: redact is idempotent: redacting a text that was already redacted
\* gives that text again, redact(redact(x)) = redact(x).
C27_RedactIdempotent == res.done => res.again = res.value

\* a password whose value starts like a Slack token was redacted, and the
\* result redacted again
C27_Witness ==
    /\ res.done
    /\ arg.text = Password \o <<":">> \o <<"x", "o", "x", "b", "-">>
    /\ res.value = Password \o <<":">> \o Redacted
    /\ res.again = res.value


\* C28: every reachable ConnectionHealth satisfies: consecutive_failures > 0
\* implies that the last failure is not older than the last success, and an
\* open circuit implies that circuit_opened_at has been set, by the call
\* that opened the circuit and to the time of that call, and is not later
\* than now.
C28_StateInvariants ==
    /\ health.consecutive_failures > 0 =>
          health.last_failure_time >= health.last_success_time
    /\ health.circuit_state = "open" => health.circuit_opened_at <= now

C28_OpeningSetsTime ==
    (health.circuit_state # "open" /\ health'.circuit_state = "open") =>
        /\ hcall'.op = "record_failure"
        /\ health'.circuit_opened_at = now

C28_HealthInvariants == [] C28_StateInvariants /\ [][C28_OpeningSetsTime]_vars

\* failures after a success opened the circuit, some time ago
C28_Witness ==
    /\ health.consecutive_failures >= FAILURE_THRESHOLD
    /\ health.last_success_time > 0
    /\ health.last_failure_time > health.last_success_time
    /\ health.circuit_state = "open"
    /\ health.circuit_opened_at = health.last_failure_time
    /\ now > health.circuit_opened_at


(***************************************************************************)
(* SpecEarly: one connection; the requests that the handlers answer before *)
(* any provider call, after requests that filled the limiter, the session  *)
(* buffer, the cache and the ConnectionHealth                              *)
(***************************************************************************)
MaxEarlyReads == 2

EarlyConns == {"c1"}
ReqNoType == [BaseRequest EXCEPT !.type = ""]
ReqNlEmpty == [BaseRequest EXCEPT !.type = "nl"]
ReqErrorEmpty == [ReqErrorCorrect EXCEPT !.failed_command = << >>]
ReqHistoryNoQuery == [BaseRequest EXCEPT !.type = "history_search"]
ReqHistoryNoHistory == [ReqHistorySearch EXCEPT !.history = << >>]
EarlyRequests ==
    {ReqUnknown, ReqNoType, ReqNlEmpty, ReqErrorEmpty, ReqHistoryNoQuery,
     ReqHistoryNoHistory, ReqHistorySearch, ReqProactive}
EarlyTexts == { <<"l", "s">> }

NextEarly == DaemonStep(EarlyConns, EarlyRequests, EarlyTexts, MaxEarlyReads, {60})

SpecEarly == Init /\ [][NextEarly]_vars

RequestKinds == {"complete", "nl", "error_correct", "history_search", "reload_config"}

\* the four cases of the claim
AnsweredEarly(data) ==
    \/ data.type \notin RequestKinds
    \/ data.type = "nl" /\ data.prompt = << >>
    \/ data.type = "error_correct" /\ data.failed_command = << >>
    \/ data.type = "history_search" /\ (data.query = << >> \/ data.history = << >>)

\* the answer the claim gives for each of them
EarlyAnswer(data) ==
    CASE data.type = "nl" -> [type |-> "nl", command |-> << >>]
      [] data.type = "error_correct" -> [type |-> "error_correct", suggestion |-> << >>]
      [] data.type = "history_search" -> [type |-> "history_search", results |-> << >>]
      [] OTHER -> [type |-> "error", message |-> <<"Unknown request type: ", data.type>>]

C29_Step ==
    n_valid' # n_valid =>
       \E data \in {RequestOfStep} :
          AnsweredEarly(data) =>
             /\ pc'[ReaderOfStep] = "read"
             /\ last_resp'.conn = ReaderOfStep
             /\ last_resp'.resp = EarlyAnswer(data)
             /\ last_resp'.calls = 0
             /\ lcall' = lcall
             /\ last_sent' = last_sent
             /\ health' = health
             /\ cache' = cache
             /\ rate_timestamps' = rate_timestamps
             /\ session' = session

\* C29: an unknown type yields the error message "Unknown request type: <t>",
\* an nl request with an empty prompt yields command "", an error_correct
\* with an empty failed_command yields suggestion "", a history_search with
\* an empty query or an empty history yields results []; in all four cases
\* no provider call is made and the ConnectionHealth, the cache, the rate
\* limiter and the session buffer are unchanged.
C29_EarlyAnswers == [][C29_Step]_vars

\* a history_search with a query and no history was answered while the
\* limiter, the session buffer and the cache held entries
C29_Witness ==
    /\ last_resp.req = ReqHistoryNoHistory
    /\ last_resp.resp = [type |-> "history_search", results |-> << >>]
    /\ session # << >>
    /\ rate_timestamps # << >>
    /\ cache # EmptyCache


(***************************************************************************)
(* SpecStart: the start command given up to MaxStarts times, each at any   *)
(* moment, and the daemon processes it spawns.  Each action is one group   *)
(* of system calls between which another process may run.                  *)
(***************************************************************************)
bootFrame ==
    <<now, healthVars, cacheVars, rate_timestamps, session, config, llm_config,
      last_activity, pc, cur, n_valid, n_written, last_resp, lcall, last_sent,
      last_read, rcall, accepted, adds, life, latencies, arg, res>>

\* os.kill(pid, 0) finds the process
Alive(pid) == boot.daemon[pid] \notin {"none", "exited"}

\* the user runs `aish start`
StartInvoke(i) ==
    /\ boot.cli[i] = "idle"
    /\ boot' = [boot EXCEPT !.cli[i] = "check"]
    /\ UNCHANGED bootFrame

\* _cmd_start, the check of the PID file: return when the process of the
\* file exists, remove both files when it does not, go on to spawn when
\* there is no file
StartCheck(i) ==
    /\ boot.cli[i] = "check"
    /\ boot' =
          IF boot.pid_file = 0
          THEN [boot EXCEPT !.cli[i] = "spawn"]
          ELSE IF Alive(boot.pid_file)
          THEN [boot EXCEPT !.cli[i] = "done"]
          ELSE [boot EXCEPT !.cli[i] = "spawn", !.pid_file = 0, !.socket_file = 0]
    /\ UNCHANGED bootFrame

\* _cmd_start, subprocess.Popen of the daemon
StartSpawn(i) ==
    /\ boot.cli[i] = "spawn"
    /\ boot' = [boot EXCEPT !.cli[i] = "write", !.daemon[i] = "boot"]
    /\ UNCHANGED bootFrame

\* _cmd_start, pid_path.write_text(str(proc.pid))
StartWritePid(i) ==
    /\ boot.cli[i] = "write"
    /\ boot' = [boot EXCEPT !.cli[i] = "done", !.pid_file = i]
    /\ UNCHANGED bootFrame

\* AishDaemon.start: if socket_path.exists(): socket_path.unlink()
DaemonUnlink(d) ==
    /\ boot.daemon[d] = "boot"
    /\ boot' = [boot EXCEPT !.daemon[d] = "bind", !.socket_file = 0]
    /\ UNCHANGED bootFrame

\* AishDaemon.start: asyncio.start_unix_server binds the path.  When another
\* process has bound the path since the unlink, the event loop either
\* removes that socket file and binds, or the bind raises and the process
\* ends; which of them depends on the Python in use.
DaemonBind(d) ==
    /\ boot.daemon[d] = "bind"
    /\ \/ boot' = [boot EXCEPT !.daemon[d] = "bound", !.socket_file = d]
       \/ /\ boot.socket_file # 0
          /\ boot' = [boot EXCEPT !.daemon[d] = "exited"]
    /\ UNCHANGED bootFrame

\* AishDaemon.start: pid_path.write_text(str(os.getpid())); the server then
\* serves its socket
DaemonWritePid(d) ==
    /\ boot.daemon[d] = "bound"
    /\ boot' = [boot EXCEPT !.daemon[d] = "serving", !.pid_file = d]
    /\ UNCHANGED bootFrame

\* AishDaemon.stop at the idle timeout: both paths are unlinked, whichever
\* process made the files
DaemonStop(d) ==
    /\ boot.daemon[d] = "serving"
    /\ boot' = [boot EXCEPT !.daemon[d] = "exited", !.pid_file = 0, !.socket_file = 0]
    /\ UNCHANGED bootFrame

InitStart ==
    /\ InitPure
    /\ arg = NoArg

NextStart ==
    \/ \E i \in Starts : StartInvoke(i)
    \/ \E i \in Starts : StartCheck(i)
    \/ \E i \in Starts : StartSpawn(i)
    \/ \E i \in Starts : StartWritePid(i)
    \/ \E d \in Starts : DaemonUnlink(d)
    \/ \E d \in Starts : DaemonBind(d)
    \/ \E d \in Starts : DaemonWritePid(d)
    \/ \E d \in Starts : DaemonStop(d)

SpecStart == InitStart /\ [][NextStart]_vars

\* the daemon processes whose server is listening
Serving == {d \in Starts : boot.daemon[d] = "serving"}

\* C30: at most one daemon process per user serves the socket at any time:
\* repeated or concurrent invocations of start (the PID-file check followed
\* by spawn and PID-file write) and of the daemon's own start-up (unlink of
\* a pre-existing socket file, then bind) never leave two daemon processes
\* running.
C30_AtMostOneDaemon == Cardinality(Serving) <= 1


C31_Step ==
    n_valid' # n_valid =>
       \E data \in {RequestOfStep} :
          ( /\ data.type = "complete"
            /\ data.buffer = << >>
            /\ data.last_output # << >>
            /\ is_high_latency(health)
            /\ pc'[ReaderOfStep] = "read"
            /\ last_resp'.resp.suggestion = << >>
            /\ last_resp'.calls = 0 )
          => session' = session

\* C31: in the proactive path the high-latency check comes before the
\* append to the session buffer: a proactive request that is answered with
\* an empty suggestion because is_high_latency holds leaves the session
\* buffer exactly as it was.
C31_HighLatencyLeavesSession == [][C31_Step]_vars


(***************************************************************************)
(* SpecComplete: one connection; requests with and without a cache key,    *)
(* provider calls that succeed with a text, succeed with the empty text or *)
(* fail, and a clock that passes the cache's TTL                           *)
(***************************************************************************)
MaxCompleteReads == 4

CompleteConns == {"c1"}
CompleteRequests == {ReqAuto, ReqNl}
CompleteTexts == { << >>, <<"l", "s">> }
CompleteTimes == {60, 75}

NextComplete ==
    DaemonStep(CompleteConns, CompleteRequests, CompleteTexts, MaxCompleteReads,
               CompleteTimes)

SpecComplete == Init /\ [][NextComplete]_vars


\* the entry of key in cache ca is fresh at time t
FreshIn(ca, key, t) ==
    /\ key # NoKey
    /\ _make_key(key) \in DOMAIN ca
    /\ ~ (t - ca[_make_key(key)].timestamp > CACHE_TTL)

\* the last call of complete() found a fresh entry: it returned the cached
\* text, sent nothing, and left the ConnectionHealth and the cache alone
C32_FreshHit ==
    (lcall.outcome # "none" /\ FreshIn(lcall.pre_cache, lcall.key, lcall.at)) =>
        /\ lcall.outcome = "cached"
        /\ lcall.text = lcall.pre_cache[_make_key(lcall.key)].response
        /\ lcall.post_health = lcall.pre_health
        /\ lcall.post_cache = lcall.pre_cache

C32_NoEmptyValue == \A k \in DOMAIN cache : cache[k].response # << >>

\* the provider call of c returns in this step
ReturnsIn(c) == pc[c] = "await" /\ pc'[c] # "await"

\* a provider call that returns records one success or one failure; an
\* entry is written only by a call with a key that succeeded with a text
C32_Step ==
    /\ \A c \in CompleteConns :
          ReturnsIn(c) =>
             IF Len(latencies') > Len(latencies)
             THEN health' = record_success(health, now, (now - cur[c].start) * 1000)
             ELSE health' = record_failure(health, now)
    /\ \A k \in DOMAIN cache' :
          (k \notin DOMAIN cache \/ cache'[k] # cache[k]) =>
             \E c \in CompleteConns :
                /\ ReturnsIn(c)
                /\ Len(latencies') > Len(latencies)
                /\ cur[c].key # NoKey
                /\ k = _make_key(cur[c].key)
                /\ cache'[k].response # << >>
                /\ cache'[k].response = last_resp'.results[Len(last_resp'.results)]

\* C32: complete() with a cache key whose entry is fresh returns the cached
\* text without consulting the breaker, calling the provider or changing
\* the ConnectionHealth; otherwise each provider call records exactly one
\* of record_success or record_failure, and a result is stored in the cache
\* only when the call succeeded with a non-empty text, so the cache never
\* holds an empty value.
C32_CacheFirstAndNeverEmpty ==
    [] (C32_FreshHit /\ C32_NoEmptyValue) /\ [][C32_Step]_vars

\* the cached text was returned while the circuit was open, and the circuit
\* is still open
C32_Witness ==
    /\ lcall.outcome = "cached"
    /\ lcall.text = <<"l", "s">>
    /\ lcall.pre_health.circuit_state = "open"
    /\ health.circuit_state = "open"
    /\ last_resp.req = ReqAuto
    /\ last_resp.calls = 0


(***************************************************************************)
(* SpecReload: two connections; reload_config between and during requests *)
(* that use the limiter, the session buffer, the cache and the provider    *)
(***************************************************************************)
MaxReloadReads == 2

ReloadConns == {"c1", "c2"}
ReloadRequests == {ReqReload, ReqProactive, ReqNl}
ReloadTexts == { <<"l", "s">> }

NextReload == DaemonStep(ReloadConns, ReloadRequests, ReloadTexts, MaxReloadReads, {60})

SpecReload == Init /\ [][NextReload]_vars

C33_Step ==
    n_valid' # n_valid =>
       \E data \in {RequestOfStep} :
          data.type = "reload_config" =>
             /\ pc'[ReaderOfStep] = "read"
             /\ last_resp'.conn = ReaderOfStep
             /\ last_resp'.resp.type = "reload_config"
             /\ IF last_resp'.resp.ok
                THEN /\ last_resp'.resp = [type |-> "reload_config", ok |-> TRUE]
                     /\ config' \in Configs
                     /\ llm_config' = config'
                ELSE /\ "message" \in DOMAIN last_resp'.resp
                     /\ config' = config
                     /\ llm_config' = llm_config
             /\ health' = health
             /\ cache' = cache
             /\ rate_timestamps' = rate_timestamps
             /\ session' = session
             /\ lcall' = lcall
             /\ last_sent' = last_sent

\* C33: reload_config either fails, returning ok false with a message and
\* leaving both the dispatcher's and the LLM client's config at the previous
\* snapshot, or succeeds, returning ok true with both holding the same new
\* snapshot before any other request is processed; in neither case are the
\* ConnectionHealth, the cache, the rate limiter or the session buffer
\* changed.
C33_ReloadSwapsBoth == [] (llm_config = config) /\ [][C33_Step]_vars

\* a reload gave both the new snapshot while a provider call of the other
\* connection was in flight and the session buffer held an entry
C33_Witness ==
    /\ last_resp.req = ReqReload
    /\ last_resp.resp = [type |-> "reload_config", ok |-> TRUE]
    /\ config = "B"
    /\ llm_config = "B"
    /\ \E c \in ReloadConns : pc[c] = "await"
    /\ session # << >>
    /\ rate_timestamps # << >>


(***************************************************************************)
(* SpecHistory: one connection; history_search requests; the provider      *)
(* answers with JSON arrays, with a JSON number, with text that is no      *)
(* JSON, with the empty text, or fails until the breaker opens             *)
(***************************************************************************)
MaxHistoryReads == 3

HistoryConns == {"c1"}
HistoryRequests == {ReqHistorySearch, ReqHistoryNoHistory}
HistoryTexts ==
    { << >>, <<"l", "s">>, <<"[", "]">>, <<"[", "1", "]">>, <<"1", "2">>,
      <<"[", "1">> }

NextHistory ==
    DaemonStep(HistoryConns, HistoryRequests, HistoryTexts, MaxHistoryReads, {60})

SpecHistory == Init /\ [][NextHistory]_vars

\* the JSON arrays among the texts of the model, and their elements
ArrayItems(text) ==
    CASE text = <<"[", "]">> -> << >>
      [] text = <<"[", "1", "]">> -> <<"1">>
      [] OTHER -> << >>

\* the text complete_with_retry gave to the handler that wrote last_resp
FinalText ==
    IF last_resp.results = << >> THEN << >>
    ELSE last_resp.results[Len(last_resp.results)]

\* C34: the results field of every history_search response is a list: the
\* parsed provider output when it is a JSON array, and [] whenever the
\* provider call failed, the breaker rejected it, the text does not parse as
\* JSON, or it parses to a non-array value.
C34_ResultsIsList ==
    last_resp.resp.type = "history_search" =>
        /\ last_resp.resp.results \in { << >>, <<"1">> }
        /\ last_resp.resp.results = ArrayItems(FinalText)
        /\ (lcall.outcome = "rejected" /\ lcall.at = now /\ pc["c1"] = "read"
               /\ last_resp.calls > 0 /\ FinalText = << >>) =>
              last_resp.resp.results = << >>

\* the breaker rejected the retry of a history_search whose first call
\* failed, and the response holds the empty list
C34_Witness ==
    /\ last_resp.req = ReqHistorySearch
    /\ last_resp.calls = 1
    /\ lcall.outcome = "rejected"
    /\ health.circuit_state = "open"
    /\ last_resp.resp = [type |-> "history_search", results |-> << >>]


(***************************************************************************)
(* llm.py: _make_key applied to two of the keys _handle_complete builds    *)
(***************************************************************************)
KeyBuffers ==
    { <<"l", "s">>, <<"l", "s", "|", "/", "x">>, <<"l", "s", "|">>, << >> }
KeyDirs ==
    { <<"/">>, <<"/", "x">>, <<"/", "x", "|", "/">>, <<"|", "/">> }
KeyOutputs == { <<"o">>, <<"o", "|", "o">> }

\* the tuples of lines 197 and 213 of _handle_complete
AutocompleteKeys == { << <<"autocomplete">>, b, d >> : b \in KeyBuffers, d \in KeyDirs }
ProactiveKeys ==
    { << <<"proactive">>, c, d, HashStr(o) >> :
         c \in KeyBuffers \ {<< >>}, d \in KeyDirs, o \in KeyOutputs }

InitKey ==
    /\ InitPure
    /\ \E a, b \in AutocompleteKeys \cup ProactiveKeys :
          arg = [fn |-> "_make_key", a |-> a, b |-> b]

ApplyKey ==
    /\ arg.fn = "_make_key"
    /\ ~ res.done
    /\ res' = [done |-> TRUE, a |-> _make_key(arg.a), b |-> _make_key(arg.b)]
    /\ UNCHANGED <<arg, pureFrame>>

NextKey == ApplyKey

SpecKey == InitKey /\ [][NextKey]_vars

\* C35: the mapping from the cache-key tuples built by the dispatcher to the
\* string that is hashed (parts joined by |) is injective: two keys of
\* different kinds never produce the same joined string, and two
\* autocomplete keys with different (buffer, cwd) pairs never do, so one
\* request is never answered from another key's cache entry.
C35_KeyInjective == (res.done /\ arg.a # arg.b) => res.a # res.b


(***************************************************************************)
(* _ensure_leading_space of both daemon modules on the same arguments      *)
(***************************************************************************)
\* aish/daemon.py, _ensure_leading_space
aish_ensure_leading_space(buffer, suggestion) ==
    IF suggestion = << >> \/ buffer = << >>
    THEN suggestion
    ELSE IF /\ isalnum(buffer[Len(buffer)]) \/ buffer[Len(buffer)] \in {"_", "-"}
            /\ isalnum(suggestion[1]) \/ suggestion[1] \in {"-", "(", "[", "{", "<"}
         THEN <<" ">> \o suggestion
         ELSE suggestion

GitSta == <<"g", "i", "t", " ", "s", "t", "a">>
TusShort == <<"t", "u", "s", " ", "-", "-", "s", "h", "o", "r", "t">>

InitSpaceBoth ==
    /\ InitPure
    /\ \E b \in SpaceBuffers \cup {GitSta}, s \in SpaceSuggestions \cup {TusShort} :
          arg = [fn |-> "_ensure_leading_space", buffer |-> b, suggestion |-> s]

ApplySpaceBoth ==
    /\ arg.fn = "_ensure_leading_space"
    /\ ~ res.done
    /\ res' = [done |-> TRUE,
               shai |-> _ensure_leading_space(arg.buffer, arg.suggestion),
               aish |-> aish_ensure_leading_space(arg.buffer, arg.suggestion)]
    /\ UNCHANGED <<arg, pureFrame>>

NextSpaceBoth == ApplySpaceBoth

SpecSpaceBoth == InitSpaceBoth /\ [][NextSpaceBoth]_vars

\* the cases in which the claim has the suggestion returned as it is
LeftUnchanged(buffer, suggestion) ==
    \/ buffer = << >>
    \/ suggestion = << >>
    \/ isspace(buffer[Len(buffer)])
    \/ isspace(suggestion[1])
    \/ isalnum(buffer[Len(buffer)]) /\ isalnum(suggestion[1])

\* C36: in both daemon variants, _ensure_leading_space returns the
\* suggestion unchanged when the buffer or the suggestion is empty, when the
\* buffer ends with whitespace, when the suggestion starts with whitespace,
\* and when the suggestion starts with an alphanumeric character that
\* continues a word (buffer "git sta" with suggestion "tus --short" stays
\* "tus --short").
C36_UnchangedInBothVariants ==
    (res.done /\ LeftUnchanged(arg.buffer, arg.suggestion)) =>
        /\ res.shai = arg.suggestion
        /\ res.aish = arg.suggestion


(***************************************************************************)
(* safety.py: sanitize_text on prefixed secrets                            *)
(***************************************************************************)
MaxPrefixPieces == 3

BearerWord == <<"B", "e", "a", "r", "e", "r">>
Token20 == [i \in 1..BEARER_MIN_LENGTH |-> IF i % 5 = 0 THEN "." ELSE "a"]
PrefixPieces ==
    { BearerWord, <<"B", "E", "A", "R", "E", "R">>, Password, Token20,
      <<" ">>, <<"=">>, <<":">>, <<"x">>, <<"'">> }

PrefixInputs == UNION { [1..n -> PrefixPieces] : n \in 1..MaxPrefixPieces }

InitPrefix ==
    /\ InitPure
    /\ \E ps \in PrefixInputs :
          arg = [fn |-> "sanitize_text", pieces |-> ps, text |-> Flatten(ps)]

ApplyPrefix ==
    /\ arg.fn = "sanitize_text"
    /\ ~ res.done
    /\ res' = [done |-> TRUE, value |-> sanitize_text(arg.text)]
    /\ UNCHANGED <<arg, pureFrame>>

NextPrefix == ApplyPrefix

SpecPrefix == InitPrefix /\ [][NextPrefix]_vars

\* C37: redact keeps the prefix of prefixed secrets and replaces only the
\* secret: for "Bearer <token>" the output is "Bearer [REDACTED]", and for
\* key/value forms (a key such as password followed by = or :) the output
\* is the key and separator followed by [REDACTED].
C37_PrefixKept ==
    res.done =>
       /\ (Len(arg.pieces) = 3 /\ arg.pieces[1] = BearerWord
              /\ arg.pieces[2] = <<" ">> /\ arg.pieces[3] = Token20) =>
             res.value = BearerWord \o <<" ">> \o Redacted
       /\ (Len(arg.pieces) = 3 /\ arg.pieces[1] = Password
              /\ arg.pieces[2] \in {<<"=">>, <<":">>}
              /\ arg.pieces[3] \in {Token20, <<"x">>}) =>
             res.value = Password \o arg.pieces[2] \o Redacted


(***************************************************************************)
(* ghst/config.py: GhstConfig, its TOML file and set_value / reset_value   *)
(*                                                                         *)
(* A config is a record of the provider fields and of the ui fields that   *)
(* FLAT_KEYS names.  A file is the list of the "key = value" lines that    *)
(* write_toml emits, each with the text of its value as written; loading   *)
(* parses that text as tomllib does.                                       *)
(***************************************************************************)
MaxConfigLen == 2

openai == <<"o", "p", "e", "n", "a", "i">>
gpt_4o == <<"g", "p", "t", "-", "4", "o">>

\* the dataclass defaults, lines 37-42 and 66-83
ProviderConfig ==
    [ name |-> openai, api_key |-> <<>>, api_base_url |-> <<>>,
      model |-> gpt_4o, autocomplete_model |-> <<>> ]

UIConfig ==
    [ autocomplete_delay_ms |-> 100, autocomplete_delay_short_ms |-> 50,
      autocomplete_delay_threshold |-> 8, autocomplete_min_chars |-> 2,
      nl_hotkey |-> <<"^", "G">>, history_search_hotkey |-> <<"^", "R">>,
      cheat_sheet_hotkey |-> <<"^", "_">>,
      ghost_color |-> <<>>, accent_color |-> <<>>, success_color |-> <<>>,
      warning_color |-> <<>>, error_color |-> <<>>,
      history_search_limit |-> 500, error_correction |-> TRUE,
      proactive_suggestions |-> TRUE, proactive_output_lines |-> 50 ]

GhstConfig == [provider |-> ProviderConfig, ui |-> UIConfig]

\* the GHST_API_KEY variable of the environment; unset here
GHST_API_KEY == <<>>

FLAT_KEYS ==
    [ provider |-> <<"provider", "name">>,
      api_key |-> <<"provider", "api_key">>,
      api_base_url |-> <<"provider", "api_base_url">>,
      model |-> <<"provider", "model">>,
      autocomplete_model |-> <<"provider", "autocomplete_model">>,
      autocomplete_delay_ms |-> <<"ui", "autocomplete_delay_ms">>,
      autocomplete_delay_short_ms |-> <<"ui", "autocomplete_delay_short_ms">>,
      autocomplete_delay_threshold |-> <<"ui", "autocomplete_delay_threshold">>,
      autocomplete_min_chars |-> <<"ui", "autocomplete_min_chars">>,
      nl_hotkey |-> <<"ui", "nl_hotkey">>,
      history_search_hotkey |-> <<"ui", "history_search_hotkey">>,
      cheat_sheet_hotkey |-> <<"ui", "cheat_sheet_hotkey">>,
      ghost_color |-> <<"ui", "ghost_color">>,
      accent_color |-> <<"ui", "accent_color">>,
      success_color |-> <<"ui", "success_color">>,
      warning_color |-> <<"ui", "warning_color">>,
      error_color |-> <<"ui", "error_color">>,
      history_search_limit |-> <<"ui", "history_search_limit">>,
      error_correction |-> <<"ui", "error_correction">>,
      proactive_suggestions |-> <<"ui", "proactive_suggestions">> ,
      proactive_output_lines |-> <<"ui", "proactive_output_lines">> ]

\* the type of a field's value, by its annotation
FieldKind(field) ==
    IF field \in {"error_correction", "proactive_suggestions"} THEN "bool"
    ELSE IF field \in {"autocomplete_delay_ms", "autocomplete_delay_short_ms",
                       "autocomplete_delay_threshold", "autocomplete_min_chars",
                       "history_search_limit", "proactive_output_lines"}
         THEN "int"
    ELSE "str"

DigitChars == <<"0", "1", "2", "3", "4", "5", "6", "7", "8", "9">>

DigitValue(ch) == (CHOOSE i \in 1..10 : DigitChars[i] = ch) - 1

IsDigits(s) == Len(s) > 0 /\ \A i \in 1..Len(s) : \E k \in 1..10 : DigitChars[k] = s[i]

\* int(value) of a string of decimal digits
RECURSIVE ParseInt(_)
ParseInt(s) ==
    IF Len(s) = 0 THEN 0
    ELSE 10 * ParseInt(SubSeq(s, 1, Len(s) - 1)) + DigitValue(s[Len(s)])

\* f'{n}' of an int that is not negative
RECURSIVE FormatInt(_)
FormatInt(n) ==
    IF n < 10 THEN <<DigitChars[n + 1]>>
    ELSE FormatInt(n \div 10) \o <<DigitChars[(n % 10) + 1]>>

\* the control characters that _toml_escape strips; the form feed stands
\* for them
StrippedChars == {"\f"}

\* _toml_escape: backslash and quote get a backslash, control characters
\* are dropped; the second re.sub looks for an ESC that the first dropped
RECURSIVE toml_escape(_)
toml_escape(s) ==
    IF s = <<>> THEN <<>>
    ELSE LET ch == Head(s)
             out == IF ch = "\\" THEN <<"\\", "\\">>
                    ELSE IF ch = "\"" THEN <<"\\", "\"">>
                    ELSE IF ch \in StrippedChars THEN <<>>
                    ELSE <<ch>>
         IN out \o toml_escape(Tail(s))

StrLine(section, key, s) ==
    [section |-> section, key |-> key, kind |-> "str", text |-> toml_escape(s)]

IntLine(section, key, n) ==
    [section |-> section, key |-> key, kind |-> "int", text |-> FormatInt(n)]

BoolLine(section, key, b) ==
    [ section |-> section, key |-> key, kind |-> "bool",
      text |-> IF b THEN <<"t", "r", "u", "e">> ELSE <<"f", "a", "l", "s", "e">> ]

Line(cond, line) == IF cond THEN <<line>> ELSE <<>>

\* write_toml: the lines written to the file, in order
write_toml(c) ==
    LET p == c.provider
        u == c.ui
        defaults == UIConfig
    IN    <<StrLine("provider", "name", p.name)>>
       \o Line(p.api_key # <<>>, StrLine("provider", "api_key", p.api_key))
       \o Line(p.api_base_url # <<>>,
               StrLine("provider", "api_base_url", p.api_base_url))
       \o <<StrLine("provider", "model", p.model)>>
       \o Line(p.autocomplete_model # <<>>,
               StrLine("provider", "autocomplete_model", p.autocomplete_model))
       \o Line(u.autocomplete_delay_ms # defaults.autocomplete_delay_ms,
               IntLine("ui", "autocomplete_delay_ms", u.autocomplete_delay_ms))
       \o Line(u.autocomplete_delay_short_ms # defaults.autocomplete_delay_short_ms,
               IntLine("ui", "autocomplete_delay_short_ms",
                       u.autocomplete_delay_short_ms))
       \o Line(u.autocomplete_delay_threshold # defaults.autocomplete_delay_threshold,
               IntLine("ui", "autocomplete_delay_threshold",
                       u.autocomplete_delay_threshold))
       \o Line(u.autocomplete_min_chars # defaults.autocomplete_min_chars,
               IntLine("ui", "autocomplete_min_chars", u.autocomplete_min_chars))
       \o Line(u.nl_hotkey # defaults.nl_hotkey,
               StrLine("ui", "nl_hotkey", u.nl_hotkey))
       \o Line(u.history_search_hotkey # defaults.history_search_hotkey,
               StrLine("ui", "history_search_hotkey", u.history_search_hotkey))
       \o Line(u.error_correction # defaults.error_correction,
               BoolLine("ui", "error_correction", u.error_correction))
       \o Line(u.proactive_suggestions # defaults.proactive_suggestions,
               BoolLine("ui", "proactive_suggestions", u.proactive_suggestions))
       \o Line(u.proactive_output_lines # defaults.proactive_output_lines,
               IntLine("ui", "proactive_output_lines", u.proactive_output_lines))
       \o Line(u.ghost_color # <<>>, StrLine("ui", "ghost_color", u.ghost_color))
       \o Line(u.accent_color # <<>>, StrLine("ui", "accent_color", u.accent_color))
       \o Line(u.success_color # <<>>,
               StrLine("ui", "success_color", u.success_color))
       \o Line(u.warning_color # <<>>,
               StrLine("ui", "warning_color", u.warning_color))
       \o Line(u.error_color # <<>>, StrLine("ui", "error_color", u.error_color))
       \o Line(u.history_search_limit # defaults.history_search_limit,
               IntLine("ui", "history_search_limit", u.history_search_limit))

\* tomllib on the text between the quotes of a basic string: a backslash
\* takes the next character, a bare quote ends the string before the end
\* of the line, a newline or another control character is not allowed
RECURSIVE ParseBasicString(_)
ParseBasicString(t) ==
    IF t = <<>> THEN [ok |-> TRUE, value |-> <<>>]
    ELSE IF t[1] = "\\"
         THEN IF Len(t) >= 2 /\ t[2] \in {"\\", "\""}
              THEN LET rest == ParseBasicString(SubSeq(t, 3, Len(t)))
                   IN [ok |-> rest.ok, value |-> <<t[2]>> \o rest.value]
              ELSE [ok |-> FALSE, value |-> <<>>]
    ELSE IF t[1] \in {"\"", "\n", "\f"}
         THEN [ok |-> FALSE, value |-> <<>>]
    ELSE LET rest == ParseBasicString(Tail(t))
         IN [ok |-> rest.ok, value |-> <<t[1]>> \o rest.value]

\* tomllib on one line of the file
ParseLine(line) ==
    IF line.kind = "str"
    THEN LET r == ParseBasicString(line.text)
         IN [section |-> line.section, key |-> line.key, ok |-> r.ok,
             value |-> r.value]
    ELSE IF line.kind = "int"
    THEN [section |-> line.section, key |-> line.key, ok |-> IsDigits(line.text),
          value |-> ParseInt(line.text)]
    ELSE [section |-> line.section, key |-> line.key,
          ok |-> line.text \in {<<"t", "r", "u", "e">>, <<"f", "a", "l", "s", "e">>},
          value |-> line.text = <<"t", "r", "u", "e">>]

\* raw.get(section, {}).get(key, default)
RawGet(raw, section, key, default) ==
    IF \E i \in 1..Len(raw) : raw[i].section = section /\ raw[i].key = key
    THEN raw[CHOOSE i \in 1..Len(raw) :
                 raw[i].section = section /\ raw[i].key = key].value
    ELSE default

from_dict(raw) ==
    LET provider ==
            [ name |-> RawGet(raw, "provider", "name", openai),
              api_key |-> RawGet(raw, "provider", "api_key", <<>>),
              api_base_url |-> RawGet(raw, "provider", "api_base_url", <<>>),
              model |-> RawGet(raw, "provider", "model", gpt_4o),
              autocomplete_model |->
                  RawGet(raw, "provider", "autocomplete_model", <<>>) ]
        ui ==
            [ autocomplete_delay_ms |->
                  RawGet(raw, "ui", "autocomplete_delay_ms", 200),
              autocomplete_delay_short_ms |->
                  RawGet(raw, "ui", "autocomplete_delay_short_ms", 100),
              autocomplete_delay_threshold |->
                  RawGet(raw, "ui", "autocomplete_delay_threshold", 8),
              autocomplete_min_chars |->
                  RawGet(raw, "ui", "autocomplete_min_chars", 3),
              nl_hotkey |-> RawGet(raw, "ui", "nl_hotkey", <<"^", "G">>),
              history_search_hotkey |->
                  RawGet(raw, "ui", "history_search_hotkey", <<"^", "R">>),
              cheat_sheet_hotkey |->
                  RawGet(raw, "ui", "cheat_sheet_hotkey", <<"^", "_">>),
              ghost_color |-> RawGet(raw, "ui", "ghost_color", <<>>),
              accent_color |-> RawGet(raw, "ui", "accent_color", <<>>),
              success_color |-> RawGet(raw, "ui", "success_color", <<>>),
              warning_color |-> RawGet(raw, "ui", "warning_color", <<>>),
              error_color |-> RawGet(raw, "ui", "error_color", <<>>),
              history_search_limit |->
                  RawGet(raw, "ui", "history_search_limit", 500),
              error_correction |-> RawGet(raw, "ui", "error_correction", TRUE),
              proactive_suggestions |->
                  RawGet(raw, "ui", "proactive_suggestions", TRUE),
              proactive_output_lines |->
                  RawGet(raw, "ui", "proactive_output_lines", 50) ]
    IN [ provider |-> IF GHST_API_KEY # <<>>
                      THEN [provider EXCEPT !.api_key = GHST_API_KEY]
                      ELSE provider,
         ui |-> ui ]

NoFile == [exists |-> FALSE, lines |-> <<>>]

\* GhstConfig.load: tomllib.loads raises on a file it cannot parse
load(file) ==
    LET raw == [i \in 1..Len(file.lines) |-> ParseLine(file.lines[i])]
    IN IF \E i \in 1..Len(raw) : ~ raw[i].ok
       THEN [raised |-> TRUE, config |-> GhstConfig]
       ELSE [raised |-> FALSE, config |-> from_dict(raw)]

\* set_value: the outcome, the config in memory and the file afterwards
set_value(c, file, key, value) ==
    IF key \notin DOMAIN FLAT_KEYS
    THEN [ok |-> FALSE, raised |-> FALSE, memory |-> c, file |-> file]
    ELSE LET section == FLAT_KEYS[key][1]
             field_name == FLAT_KEYS[key][2]
             kind == FieldKind(field_name)
         IN IF kind = "int" /\ ~ IsDigits(value)
            THEN [ok |-> FALSE, raised |-> TRUE, memory |-> c, file |-> file]
            ELSE LET value_typed ==
                         IF kind = "bool"
                         THEN LowerStr(value) \in
                                  { <<"t", "r", "u", "e">>, <<"1">>,
                                    <<"y", "e", "s">>, <<"o", "n">> }
                         ELSE IF kind = "int" THEN ParseInt(value)
                         ELSE value
                     m == [c EXCEPT ![section][field_name] = value_typed]
                 IN [ ok |-> TRUE, raised |-> FALSE, memory |-> m,
                      file |-> [exists |-> TRUE, lines |-> write_toml(m)] ]

get_default(key) == GhstConfig[FLAT_KEYS[key][1]][FLAT_KEYS[key][2]]

reset_value(c, file, key) ==
    IF key \notin DOMAIN FLAT_KEYS
    THEN [ok |-> FALSE, raised |-> FALSE, memory |-> c, file |-> file]
    ELSE LET m == [c EXCEPT ![FLAT_KEYS[key][1]][FLAT_KEYS[key][2]] =
                                get_default(key)]
         IN [ ok |-> TRUE, raised |-> FALSE, memory |-> m,
              file |-> [exists |-> TRUE, lines |-> write_toml(m)] ]

ConfigChars == {"a", "\"", "\\", "\n", "\f"}

ConfigStrings == UNION { [1..n -> ConfigChars] : n \in 0..MaxConfigLen }

IntTexts ==
    { <<"1", "0", "0">>, <<"2", "0", "0">>, <<"5", "0">>, <<"5", "0", "0">>,
      <<"2">>, <<"3">>, <<"0">>, <<"a">> }

BoolTexts ==
    { <<"t", "r", "u", "e">>, <<"T", "r", "u", "e">>, <<"o", "n">>, <<"1">>,
      <<"f", "a", "l", "s", "e">>, <<"0">> }

ConfigKeys == DOMAIN FLAT_KEYS \cup {"no_such_key"}

ValuesOf(key) ==
    IF key \notin DOMAIN FLAT_KEYS THEN {<<"a">>}
    ELSE IF FieldKind(FLAT_KEYS[key][2]) = "int" THEN IntTexts
    ELSE IF FieldKind(FLAT_KEYS[key][2]) = "bool" THEN BoolTexts
    ELSE ConfigStrings

\* the config the command starts from: the one constructed from the
\* dataclasses, or the one loaded when there is no file yet
StartConfigs == {GhstConfig, load(NoFile).config}

InitConfig ==
    /\ InitPure
    /\ \E key \in ConfigKeys, start \in StartConfigs :
          \/ \E value \in ValuesOf(key) :
                arg = [fn |-> "set_value", key |-> key, value |-> value,
                       start |-> start]
          \/ arg = [fn |-> "reset_value", key |-> key, value |-> <<>>,
                    start |-> start]

\* the command: set_value or reset_value, which writes the file
ConfigCommand ==
    /\ res = NoRes
    /\ arg.fn \in {"set_value", "reset_value"}
    /\ \E r \in { IF arg.fn = "set_value"
                  THEN set_value(arg.start, NoFile, arg.key, arg.value)
                  ELSE reset_value(arg.start, NoFile, arg.key) } :
          res' = [ done |-> FALSE, ok |-> r.ok, raised |-> r.raised,
                   memory |-> r.memory, file |-> r.file ]
    /\ UNCHANGED <<arg, pureFrame>>

\* the next load of the file
ConfigReload ==
    /\ res # NoRes
    /\ ~ res.done
    /\ arg.fn \in {"set_value", "reset_value"}
    /\ res' = [res EXCEPT !.done = TRUE] @@ [loaded |-> load(res.file)]
    /\ UNCHANGED <<arg, pureFrame>>

NextConfig == ConfigCommand \/ ConfigReload

SpecConfig == InitConfig /\ [][NextConfig]_vars

\* C38: writing a config with write_toml and loading the file again yields
\* the same provider and ui values for every field that set_value reaches,
\* for every value of those fields (a ui value equal to a built-in default
\* included); reset_value followed by a reload yields the documented
\* default, autocomplete_delay_ms = 200.
C38_WriteLoadRoundTrip ==
    (res.done /\ res.ok) =>
       /\ ~ res.loaded.raised
       /\ res.loaded.config = res.memory
       /\ (arg.fn = "reset_value" /\ arg.key = "autocomplete_delay_ms") =>
             res.loaded.config.ui.autocomplete_delay_ms = 200


\* C39: in every reachable ConnectionHealth the circuit is closed exactly
\* when consecutive_failures < FAILURE_THRESHOLD: closed implies fewer than
\* 3 consecutive failures, and open or half_open implies at least 3.
C39_ClosedIffBelowThreshold ==
    /\ health.circuit_state \in {"closed", "open", "half_open"}
    /\ health.circuit_state = "closed" <=>
          health.consecutive_failures < FAILURE_THRESHOLD

\* a circuit closed again by a success, after a probe that failed
C39_Witness ==
    /\ health.circuit_state = "closed"
    /\ hcall.op = "record_success"
    /\ hcall.pre.circuit_state = "half_open"
    /\ hcall.pre.consecutive_failures > FAILURE_THRESHOLD
    /\ health.consecutive_failures = 0


(***************************************************************************)
(* SpecRecover: LLMClient.complete called by the handlers of two           *)
(* connections, with a provider that fails until it recovers and answers   *)
(* every call from then on.  arg holds whether the provider has recovered,  *)
(* res what the last call of complete() met.                               *)
(***************************************************************************)
MaxRecoverTime == 90
RecoverSteps == {30}
RecoverKey == << <<"autocomplete">>, <<"l", "s">>, <<"/">> >>
RecoverKeys == {NoKey, RecoverKey}
RecoverConns == {"c1"}
RecoverTexts == { <<"l", "s">> }

recoverFrame ==
    <<callHistory, rate_timestamps, session, config, llm_config, last_activity,
      n_valid, n_written, last_resp, lcall, last_sent, last_read, rcall, accepted,
      adds, life, latencies, boot>>

InitRecover ==
    /\ InitPure
    /\ arg = [fn |-> "provider", recovered |-> FALSE]

\* complete() is called with the cache key (or with none): lines 197-209
RecoverCall(c, key) ==
    /\ arg.fn = "provider"
    /\ pc[c] = "read"
    /\ \E r \in {complete_begin(health, cache, key, now)} :
          /\ health' = r.health
          /\ cache' = r.cache
          /\ res' = [done |-> TRUE, outcome |-> r.outcome,
                     pre |-> health.circuit_state, post |-> r.health.circuit_state,
                     cooled |-> now - health.circuit_opened_at >= COOLDOWN_SECONDS]
          /\ IF r.outcome = "send"
             THEN /\ pc' = [pc EXCEPT ![c] = "await"]
                  /\ cur' = [cur EXCEPT ![c] = [NoCur EXCEPT !.key = key, !.start = now]]
             ELSE UNCHANGED <<pc, cur>>
    /\ UNCHANGED <<now, arg, recoverFrame>>

\* the provider call of c returns or raises: lines 211-232
RecoverReturn(c, ok, text) ==
    /\ arg.fn = "provider"
    /\ pc[c] = "await"
    /\ \E e \in {complete_end(health, cache, cur[c].key, now, cur[c].start, ok, text)} :
          /\ health' = e.health
          /\ cache' = e.cache
    /\ pc' = [pc EXCEPT ![c] = "read"]
    /\ cur' = [cur EXCEPT ![c] = NoCur]
    /\ UNCHANGED <<now, res, arg, recoverFrame>>

\* a call raises: only before the provider has recovered, and while the
\* clock of the model can still pass the cooldown
RecoverFail(c) ==
    /\ ~ arg.recovered
    /\ health.consecutive_failures < MaxFailures
    /\ now + COOLDOWN_SECONDS <= MaxRecoverTime
    /\ RecoverReturn(c, FALSE, << >>)

RecoverSucceed(c, text) == RecoverReturn(c, TRUE, text)

\* the provider recovers
ProviderRecovers ==
    /\ arg.fn = "provider"
    /\ ~ arg.recovered
    /\ arg' = [arg EXCEPT !.recovered = TRUE]
    /\ UNCHANGED <<now, health, cache, pc, cur, res, recoverFrame>>

RecoverTick ==
    /\ \E d \in RecoverSteps : now + d <= MaxRecoverTime /\ now' = now + d
    /\ UNCHANGED <<health, cache, pc, cur, res, arg, recoverFrame>>

RecoverCallUncached == \E c \in RecoverConns : RecoverCall(c, NoKey)

RecoverAnswer == \E c \in RecoverConns, text \in RecoverTexts : RecoverSucceed(c, text)

NextRecover ==
    \/ \E c \in RecoverConns, key \in RecoverKeys : RecoverCall(c, key)
    \/ RecoverAnswer
    \/ \E c \in RecoverConns : RecoverFail(c)
    \/ ProviderRecovers
    \/ RecoverTick

SpecRecover == InitRecover /\ [][NextRecover]_vars

\* Time advances, requests that the cache cannot answer keep arriving, and
\* the provider answers the calls it gets.
SpecRecoverFair ==
    /\ SpecRecover
    /\ WF_vars(RecoverTick)
    /\ WF_vars(RecoverCallUncached)
    /\ WF_vars(RecoverAnswer)

\* C40: the breaker cannot stay open forever once the provider has
\* recovered: from any open state, if time advances past the cooldown,
\* requests without a cache hit keep arriving and every provider call from
\* then on succeeds, the circuit eventually becomes closed and later
\* requests are sent to the provider again.
C40_OpenLeadsToClosed ==
    /\ (health.circuit_state = "open" /\ arg.recovered) ~>
           health.circuit_state = "closed"
    /\ (health.circuit_state = "open" /\ arg.recovered) ~>
           (/\ res.done
            /\ res.outcome = "send"
            /\ res.pre = "closed"
            /\ health.circuit_state = "closed")

\* a circuit closed by the answer to the probe that was let through once
\* the cooldown had passed, with the provider recovered
C40_Witness ==
    /\ arg.fn = "provider"
    /\ arg.recovered
    /\ health.circuit_state = "closed"
    /\ health.consecutive_failures = 0
    /\ res.done
    /\ res.outcome = "send"
    /\ res.pre = "open"
    /\ res.post = "half_open"
    /\ res.cooled

====
